---- MODULE Spec2Model ----
(***************************************************************************)
(* Model of the vault-to-graph import pipeline:                            *)
(*   - the two date normalizers (utils/edtf_parser.py: EDTFParser and      *)
(*     master_import.py: parse_edtf_date),                                 *)
(*   - the graph projector (master_import.py: Neo4jClient and main),       *)
(*   - the relation inference rules (utils/relation_calculator.py).        *)
(* Strings that the code inspects character by character (date             *)
(* expressions) are sequences of one-character strings.                    *)
(***************************************************************************)
EXTENDS Integers, Sequences, FiniteSets, TLC

VARIABLES
    dpc,          \* date normalizers: "idle" | "input" | "parsed" | "derived"
    dateIn,       \* the shape and tokens the date expression was written from
    edtf_string,  \* the raw date expression handed to the normalizers
    parsed,       \* result of EDTFParser.parse(edtf_string)
    derived       \* result of parse_edtf_date(edtf_string)

dateVars == <<dpc, dateIn, edtf_string, parsed, derived>>

VARIABLES
    pc,           \* position of main() in the import run ("idle": no run)
    idx,          \* index of the next record of the batch being imported
    batch,        \* the parsed batches and the configuration of the run
    graph,        \* the property graph held by the backend
    writes,       \* the backend statements issued by the run, in order
    commits,      \* how many times the four batches have been committed
    committed,    \* the graph as the previous commit of the batches left it
    missed,       \* edges whose target node was absent when they were written
    missLog       \* the misses the projector reported

projVars == <<pc, idx, batch, graph, writes, commits, committed, missed, missLog>>

VARIABLES
    npc,          \* DocumentParser.parse_all: "idle" | "parsing" | "returned"
    vault,        \* the files of the vault in the order rglob yields them
    pos,          \* index of the next file of the loop
    doc_id_index, \* DocumentParser._doc_id_index
    doc_list,     \* the documents list of parse_all
    warnings,     \* the WikilinkWarnings of parse_all
    note,         \* the text or entity note handed to an extractor
    record        \* what the extractor made of the note

noteVars == <<npc, vault, pos, doc_id_index, doc_list, warnings, note, record>>

vars == <<dateVars, projVars, noteVars>>

(***************************************************************************)
(* Python string primitives on sequences of characters                     *)
(***************************************************************************)
None == <<"None">>
Raised == <<"IllegalMonthError">>

Digits == <<"0", "1", "2", "3", "4", "5", "6", "7", "8", "9">>

IsDigit(c) == \E i \in 1..10 : Digits[i] = c

DigitVal(c) == (CHOOSE i \in 1..10 : Digits[i] = c) - 1

RECURSIVE ToInt(_)
ToInt(s) == IF s = <<>> THEN 0
            ELSE 10 * ToInt(SubSeq(s, 1, Len(s) - 1)) + DigitVal(s[Len(s)])

D2(n) == <<Digits[((n \div 10) % 10) + 1], Digits[(n % 10) + 1]>>

D4(n) == <<Digits[((n \div 1000) % 10) + 1], Digits[((n \div 100) % 10) + 1]>> \o D2(n)

StartsWith(s, p) == Len(s) >= Len(p) /\ SubSeq(s, 1, Len(p)) = p

EndsWith(s, p) == Len(s) >= Len(p) /\ SubSeq(s, Len(s) - Len(p) + 1, Len(s)) = p

HasChar(s, c) == \E i \in 1..Len(s) : s[i] = c

RECURSIVE LStrip(_, _)
LStrip(s, cs) == IF s # <<>> /\ s[1] \in cs THEN LStrip(Tail(s), cs) ELSE s

RECURSIVE RStrip(_, _)
RStrip(s, cs) == IF s # <<>> /\ s[Len(s)] \in cs
                 THEN RStrip(SubSeq(s, 1, Len(s) - 1), cs) ELSE s

Strip(s) == LStrip(RStrip(s, {" "}), {" "})

RECURSIVE RemoveChar(_, _)
RemoveChar(s, c) == IF s = <<>> THEN <<>>
                    ELSE IF s[1] = c THEN RemoveChar(Tail(s), c)
                    ELSE <<s[1]>> \o RemoveChar(Tail(s), c)

RECURSIVE Split(_, _)
Split(s, c) ==
    IF ~HasChar(s, c) THEN <<s>>
    ELSE LET i == CHOOSE k \in 1..Len(s) :
                      s[k] = c /\ \A j \in 1..(k - 1) : s[j] # c
         IN  <<SubSeq(s, 1, i - 1)>> \o Split(SubSeq(s, i + 1, Len(s)), c)

AllDigits(s, lo, hi) == \A i \in lo..hi : IsDigit(s[i])

MatchYear(s) == Len(s) = 4 /\ AllDigits(s, 1, 4)

MatchYearMonth(s) == Len(s) = 7 /\ AllDigits(s, 1, 4) /\ s[5] = "-" /\ AllDigits(s, 6, 7)

MatchYearMonthDay(s) ==
    /\ Len(s) = 10
    /\ AllDigits(s, 1, 4) /\ s[5] = "-" /\ AllDigits(s, 6, 7)
    /\ s[8] = "-" /\ AllDigits(s, 9, 10)

(***************************************************************************)
(* calendar.monthrange(year, month)[1]: the number of days of the month,   *)
(* 0 standing for the IllegalMonthError raised for a month outside 1..12.  *)
(***************************************************************************)
isleap(year) == year % 4 = 0 /\ (year % 100 # 0 \/ year % 400 = 0)

\* the days of the month in a calendar without leap years
monthrange_noleap(year, month) ==
    IF month \notin 1..12 THEN 0
    ELSE IF month = 2 THEN 28
    ELSE IF month \in {4, 6, 9, 11} THEN 30 ELSE 31

monthrange(year, month) ==
    IF month \notin 1..12 THEN 0
    ELSE IF month = 2 THEN (IF isleap(year) THEN 29 ELSE 28)
    ELSE IF month \in {4, 6, 9, 11} THEN 30 ELSE 31

(***************************************************************************)
(* EDTFParser._normalize_single_date                                       *)
(***************************************************************************)
NormalizeSingleDate(date_str, start) ==
    IF date_str = <<>> THEN None
    ELSE LET s == RStrip(date_str, {"~", "?"})
         IN  IF MatchYear(s)
             THEN (IF start THEN s \o <<"-", "0", "1", "-", "0", "1">>
                            ELSE s \o <<"-", "1", "2", "-", "3", "1">>)
             ELSE IF MatchYearMonth(s)
             THEN (IF start THEN s \o <<"-", "0", "1">>
                   ELSE LET last_day == monthrange(ToInt(SubSeq(s, 1, 4)),
                                                   ToInt(SubSeq(s, 6, 7)))
                        IN  IF last_day = 0 THEN Raised
                            ELSE s \o <<"-">> \o D2(last_day))
             ELSE IF MatchYearMonthDay(s) THEN s
             ELSE None

(***************************************************************************)
(* EDTFParser.parse: (date_start, date_end, precision); an exception       *)
(* raised by _normalize_single_date propagates (precision "raised").       *)
(***************************************************************************)
Triple(s, e, p) ==
    IF s = Raised \/ e = Raised
    THEN [date_start |-> None, date_end |-> None, date_precision |-> "raised"]
    ELSE [date_start |-> s, date_end |-> e, date_precision |-> p]

EDTFParse(edtf_in) ==
    IF edtf_in = None \/ edtf_in = <<>> \/ edtf_in = <<".", ".", "/", ".", ".">>
    THEN Triple(None, None, "unknown")
    ELSE LET edtf == Strip(edtf_in)
             n == Len(edtf)
         IN  IF StartsWith(edtf, <<".", ".", "/">>)
             THEN Triple(None, NormalizeSingleDate(SubSeq(edtf, 4, n), TRUE), "before")
             ELSE IF EndsWith(edtf, <<"/", ".", ".">>)
             THEN Triple(NormalizeSingleDate(SubSeq(edtf, 1, n - 3), TRUE), None, "after")
             ELSE IF HasChar(edtf, "/")
             THEN LET parts == Split(edtf, "/")
                  IN  Triple(NormalizeSingleDate(parts[1], TRUE),
                             NormalizeSingleDate(parts[2], TRUE), "interval")
             ELSE IF EndsWith(edtf, <<"~">>)
             THEN LET base == SubSeq(edtf, 1, n - 1)
                  IN  Triple(NormalizeSingleDate(base, TRUE),
                             NormalizeSingleDate(base, FALSE), "circa")
             ELSE IF EndsWith(edtf, <<"?">>)
             THEN LET base == SubSeq(edtf, 1, n - 1)
                  IN  Triple(NormalizeSingleDate(base, TRUE),
                             NormalizeSingleDate(base, FALSE), "uncertain")
             ELSE Triple(NormalizeSingleDate(edtf, TRUE),
                         NormalizeSingleDate(edtf, FALSE),
                         IF MatchYearMonthDay(edtf) THEN "day"
                         ELSE IF MatchYearMonth(edtf) THEN "month"
                         ELSE IF MatchYear(edtf) THEN "year"
                         ELSE "unknown")

(***************************************************************************)
(* master_import.parse_edtf_date: the derivation used at commit time       *)
(***************************************************************************)
CleanBound(raw) ==
    IF raw = <<>> \/ raw = <<".", ".">> THEN None
    ELSE LET c == Strip(RemoveChar(RemoveChar(raw, "~"), "?"))
         IN  IF c = <<".", ".">> THEN None ELSE c

parse_edtf_date(edtf_in) ==
    IF edtf_in = None \/ edtf_in = <<>> \/ Strip(edtf_in) = <<>>
    THEN [date_start |-> None, date_end |-> None, date_precision |-> "unknown"]
    ELSE LET edtf == Strip(edtf_in)
         IN  IF edtf = <<".", ".">>
             THEN [date_start |-> None, date_end |-> None, date_precision |-> "unknown"]
             ELSE IF HasChar(edtf, "/")
             THEN LET parts == Split(edtf, "/")
                      date_start == CleanBound(Strip(parts[1]))
                      date_end == CleanBound(Strip(parts[2]))
                  IN  [date_start |-> date_start, date_end |-> date_end,
                       date_precision |->
                           IF date_start = None /\ date_end # None THEN "open_start"
                           ELSE IF date_start # None /\ date_end = None THEN "open_end"
                           ELSE IF date_start = None /\ date_end = None THEN "unknown"
                           ELSE "interval"]
             ELSE IF HasChar(edtf, "~")
             THEN LET clean_date == Strip(RemoveChar(edtf, "~"))
                  IN  [date_start |-> clean_date, date_end |-> clean_date,
                       date_precision |-> "approximate"]
             ELSE IF HasChar(edtf, "?")
             THEN LET clean_date == Strip(RemoveChar(edtf, "?"))
                  IN  [date_start |-> clean_date, date_end |-> clean_date,
                       date_precision |-> "uncertain"]
             ELSE [date_start |-> edtf, date_end |-> edtf, date_precision |-> "exact"]

(***************************************************************************)
(* The property graph held by the backend.  A node is identified by its    *)
(* label, its key property (id, event_id, micro_id, assertion_id or rid)   *)
(* and, for nodes made by CREATE, the serial number of the creation (0 for *)
(* nodes made by MERGE).  props holds the properties of Event and          *)
(* MicroAction nodes.                                                      *)
(***************************************************************************)
NoId == "None"
AnyLabel == "Any"
UNKNOWN_AUTHORITY == "UNKNOWN_AUTHORITY"

EntityLabels == {"GPE", "Organization", "Person"}

\* labels whose nodes carry the property `id`
IdLabels == EntityLabels \cup {"ArchiveDocument"}

Node(label, key, n) == [label |-> label, key |-> key, n |-> n]

Edge(type, src, dst) == [type |-> type, src |-> src, dst |-> dst]

NoProps ==
    [date_edtf |-> None, date_start |-> None, date_end |-> None,
     date_precision |-> "unknown", actor_id |-> NoId, recipient_id |-> NoId,
     about_id |-> NoId, victim_id |-> NoId, agent_id |-> NoId,
     place_id |-> NoId, link_type |-> NoId]

EmptyGraph ==
    [nodes |-> {}, edges |-> {}, props |-> [x \in {} |-> NoProps], created |-> 0]

\* MATCH (x {id: $id}) / MATCH (x:Label {id: $id})
MatchId(g, label, id) ==
    {x \in g.nodes : x.label \in IdLabels /\ x.key = id
                     /\ (label = AnyLabel \/ x.label = label)}

\* MATCH (x:Label {<key property>: $key}); a null parameter matches nothing
MatchKey(g, label, key) ==
    IF key = NoId THEN {} ELSE {x \in g.nodes : x.label = label /\ x.key = key}

\* MERGE (x:Label {<key property>: $key})
MergeNode(g, label, key) ==
    IF \E x \in g.nodes : x.label = label /\ x.key = key THEN g
    ELSE [g EXCEPT !.nodes = @ \cup {Node(label, key, 0)}]

\* MATCH ... MATCH ... MERGE (s)-[:type]->(d): one edge per matched pair
MergeEdges(g, type, srcs, dsts) ==
    [g EXCEPT !.edges = @ \cup {Edge(type, x, y) : x \in srcs, y \in dsts}]

\* SET x += $properties on the matched Event / MicroAction nodes
SetProps(g, targets, p) ==
    [g EXCEPT !.props = [x \in (DOMAIN @) \cup targets |->
                            IF x \in targets THEN p ELSE @[x]]]

(***************************************************************************)
(* Neo4jClient._create_reified_structure_nodes_only (pass 1)               *)
(***************************************************************************)
StructLabel(struct_type) ==
    CASE struct_type = "occupations"            -> "Occupation"
      [] struct_type = "names"                  -> "Name"
      [] struct_type = "origins"                -> "Origin"
      [] struct_type = "family_relations"       -> "FamilyRelation"
      [] struct_type = "professional_relations" -> "ProfessionalRelation"
      [] struct_type = "residences"             -> "Residence"
      [] OTHER                                  -> NoId

OwnershipEdge(struct_type) ==
    CASE struct_type = "occupations"            -> "HAS_OCCUPATION"
      [] struct_type = "names"                  -> "HAS_NAME"
      [] struct_type = "origins"                -> "HAS_ORIGIN"
      [] struct_type = "family_relations"       -> "HAS_FAMILY_REL"
      [] struct_type = "professional_relations" -> "HAS_PROF_REL"
      [] struct_type = "residences"             -> "HAS_RESIDENCE"
      [] OTHER                                  -> NoId

StructLabels ==
    {"Occupation", "Name", "Origin", "FamilyRelation", "ProfessionalRelation", "Residence"}

OwnershipEdges ==
    {"HAS_OCCUPATION", "HAS_NAME", "HAS_ORIGIN", "HAS_FAMILY_REL", "HAS_PROF_REL",
     "HAS_RESIDENCE"}

\* MATCH (p:Person {id}) CREATE (o:<Label>) SET o = $properties, o.rid = $rid
\* MERGE (p)-[:HAS_...]->(o)
CreateStructNode(g, entity_id, item) ==
    IF StructLabel(item.kind) = NoId \/ MatchId(g, "Person", entity_id) = {} THEN g
    ELSE LET o == Node(StructLabel(item.kind), item.rid, g.created + 1)
         IN  [g EXCEPT !.nodes = @ \cup {o},
                       !.edges = @ \cup {Edge(OwnershipEdge(item.kind), x, o) :
                                            x \in MatchId(g, "Person", entity_id)},
                       !.created = @ + 1]

(***************************************************************************)
(* Neo4jClient._create_reified_structure_relations (pass 2): the edges     *)
(* from a structure node to the entities its item names.  Each entry is    *)
(* <<edge type, label required of the target, target id>>.                 *)
(***************************************************************************)
StructTargets(item) ==
    LET all ==
          CASE item.kind = "occupations" ->
                   {<<"AT_ORGANIZATION", "Organization", item.organization>>,
                    <<"AT_PLACE", "GPE", item.place>>}
            [] item.kind = "origins" -> {<<"AT_PLACE", "GPE", item.place>>}
            [] item.kind = "family_relations" -> {<<"RELATES_TO", "Person", item.target>>}
            [] item.kind = "professional_relations" ->
                   {<<"RELATES_TO", AnyLabel, item.target>>,
                    <<"IN_CONTEXT_OF", "Organization", item.organization_context>>}
            [] item.kind = "residences" -> {<<"AT_PLACE", "GPE", item.place>>}
            [] OTHER -> {}
    IN  {t \in all : t[3] # NoId}

CreateStructRelations(g, entity_id, item) ==
    [g EXCEPT !.edges = @ \cup UNION
        {{Edge(t[1], x, y) : x \in MatchKey(g, StructLabel(item.kind), item.rid),
                             y \in MatchId(g, t[2], t[3])} : t \in StructTargets(item)}]

(***************************************************************************)
(* Neo4jClient.import_entities                                             *)
(***************************************************************************)
label_order(label) ==
    CASE label = "GPE" -> 1 [] label = "Organization" -> 2 [] label = "Person" -> 3
      [] OTHER -> 999

\* the batch in the order the extractor returned it
SortByLabel_unsorted(entities) == entities

\* sorted(entities, key=label_order): a stable sort
SortByLabel(entities) ==
    LET OfRank(r) == SelectSeq(entities, LAMBDA e : label_order(e.label) = r)
    IN  OfRank(1) \o OfRank(2) \o OfRank(3) \o OfRank(999)

\* the label a specific relation requires of its source and of its target
SourceLabel(rel_type) == IF rel_type = "WORKED_FOR" THEN "Person" ELSE AnyLabel

TargetLabel(rel_type) == IF rel_type = "LOCATED_IN" THEN "GPE" ELSE "Organization"

SpecificRelTypes == {"LOCATED_IN", "IS_PART_OF", "WORKED_FOR"}

\* the edges written for the entity's specific relations and generic references
EntityEdges(g, entity) ==
    UNION {{Edge(r[1], x, y) : x \in MatchId(g, SourceLabel(r[1]), entity.id),
                               y \in MatchId(g, TargetLabel(r[1]), r[2])} :
               r \in {entity.specific_relations[k] :
                         k \in {j \in 1..Len(entity.specific_relations) :
                                   entity.specific_relations[j][1] \in SpecificRelTypes}}}
    \cup {Edge("REFERENCES", x, y) : x \in MatchId(g, AnyLabel, entity.id),
                                     y \in UNION {MatchId(g, AnyLabel, ref_id) :
                                                     ref_id \in entity.generic_references}}

CreateStructNodes(g, entity) ==
    LET f[k \in 0..Len(entity.structures)] ==
            IF k = 0 THEN g ELSE CreateStructNode(f[k - 1], entity.id, entity.structures[k])
    IN  f[Len(entity.structures)]

EntityNodeAndEdges(g, entity) ==
    [g EXCEPT !.edges = @ \cup EntityEdges(g, entity)]

\* one iteration of the pass-1 loop
EntityPass1(g, entity) ==
    CreateStructNodes(EntityNodeAndEdges(MergeNode(g, entity.label, entity.id), entity),
                      entity)

\* one iteration of the pass-2 loop
EntityPass2(g, entity) ==
    LET f[k \in 0..Len(entity.structures)] ==
            IF k = 0 THEN g
            ELSE CreateStructRelations(f[k - 1], entity.id, entity.structures[k])
    IN  f[Len(entity.structures)]

\* the targets the entity's pass-1 edges look for and do not find
EntityMisses(g, entity) ==
    LET g1 == MergeNode(g, entity.label, entity.id)
    IN  {<<r[1], entity.id, r[2]>> :
            r \in {entity.specific_relations[k] :
                      k \in {j \in 1..Len(entity.specific_relations) :
                                /\ entity.specific_relations[j][1] \in SpecificRelTypes
                                /\ MatchId(g1, TargetLabel(entity.specific_relations[j][1]),
                                           entity.specific_relations[j][2]) = {}}}}
        \cup {<<"REFERENCES", entity.id, ref_id>> :
                 ref_id \in {x \in entity.generic_references : MatchId(g1, AnyLabel, x) = {}}}

\* the targets the entity's pass-2 edges look for and do not find
StructMisses(g, entity) ==
    UNION {{<<t[1], entity.structures[k].rid, t[3]>> :
               t \in {u \in StructTargets(entity.structures[k]) :
                         MatchId(g, u[2], u[3]) = {}}} :
              k \in 1..Len(entity.structures)}

ImportEntities(g, entities) ==
    LET sorted == SortByLabel(entities)
        p1[k \in 0..Len(sorted)] == IF k = 0 THEN g ELSE EntityPass1(p1[k - 1], sorted[k])
        p2[k \in 0..Len(sorted)] ==
            IF k = 0 THEN p1[Len(sorted)] ELSE EntityPass2(p2[k - 1], sorted[k])
    IN  p2[Len(sorted)]

(***************************************************************************)
(* Neo4jClient.import_documents: one iteration of the loop                 *)
(***************************************************************************)
DocumentEdges(g, doc) ==
    MergeEdges(g, "REFERENCES", MatchId(g, "ArchiveDocument", doc.id),
               UNION {MatchId(g, AnyLabel, ref_id) : ref_id \in doc.references})

ImportDocument(g, doc) == DocumentEdges(MergeNode(g, "ArchiveDocument", doc.id), doc)

ImportDocuments(g, documents) ==
    LET f[k \in 0..Len(documents)] ==
            IF k = 0 THEN g ELSE ImportDocument(f[k - 1], documents[k])
    IN  f[Len(documents)]

(***************************************************************************)
(* The date derivation of import_events / import_microactions: the stored  *)
(* date fields are those of parse_edtf_date when the record has a raw date *)
(* expression, and (None, None, "unknown") otherwise.                      *)
(***************************************************************************)
DeriveDates(props) ==
    IF props.date_edtf # None /\ props.date_edtf # <<>>
    THEN LET date_info == parse_edtf_date(props.date_edtf)
         IN  [props EXCEPT !.date_start = date_info.date_start,
                           !.date_end = date_info.date_end,
                           !.date_precision = date_info.date_precision]
    ELSE [props EXCEPT !.date_start = None, !.date_end = None,
                       !.date_precision = "unknown"]

\* MATCH (x:Label {key}) MATCH (d:ArchiveDocument {id: $doc_id})
\* MERGE (a:Assertion {assertion_id}) MERGE (d)-[:SUPPORTS]->(a) MERGE (a)-[:CLAIMS]->(x)
AssertionEdges(g, label, key, assertion) ==
    MergeEdges(MergeEdges(g, "SUPPORTS",
                          MatchId(g, "ArchiveDocument", assertion.doc_id),
                          MatchKey(g, "Assertion", assertion.assertion_id)),
               "CLAIMS", MatchKey(g, "Assertion", assertion.assertion_id),
               MatchKey(g, label, key))

CreateAssertion(g, label, key, assertion) ==
    IF MatchKey(g, label, key) = {} \/ MatchId(g, "ArchiveDocument", assertion.doc_id) = {}
    THEN g
    ELSE AssertionEdges(MergeNode(g, "Assertion", assertion.assertion_id), label, key,
                        assertion)

\* MERGE (x:Label {<key property>: $key}) SET x += $properties
MergeWithProps(g, label, key, props) ==
    SetProps(MergeNode(g, label, key), {Node(label, key, 0)}, props)

(***************************************************************************)
(* Neo4jClient.import_events: one iteration of the loop                    *)
(***************************************************************************)
EventEdges(g, e, props, references) ==
    [g EXCEPT !.edges = @
        \cup (IF props.victim_id # NoId
              THEN {Edge("WAS_VICTIM_OF", x, y) :
                       x \in MatchId(g, "Person", props.victim_id), y \in e}
              ELSE {})
        \cup (IF props.agent_id # NoId /\ props.agent_id # UNKNOWN_AUTHORITY
              THEN {Edge("ACTED_AS_AGENT", x, y) :
                       x \in MatchId(g, AnyLabel, props.agent_id), y \in e}
              ELSE {})
        \cup (IF props.place_id # NoId
              THEN {Edge("OCCURRED_AT", x, y) :
                       x \in e, y \in MatchId(g, "GPE", props.place_id)}
              ELSE {})
        \cup {Edge("REFERENCES", x, y) :
                 x \in e, y \in UNION {MatchId(g, AnyLabel, ref_id) : ref_id \in references}}]

ImportEventWith(g, event, props) ==
    EventEdges(CreateAssertion(MergeWithProps(g, "Event", event.event_id, props),
                               "Event", event.event_id, event.assertion),
               {Node("Event", event.event_id, 0)}, props, event.references)

ImportEvent(g, event) == ImportEventWith(g, event, DeriveDates(event.properties))

ImportEvents(g, events) ==
    LET f[k \in 0..Len(events)] == IF k = 0 THEN g ELSE ImportEvent(f[k - 1], events[k])
    IN  f[Len(events)]

(***************************************************************************)
(* Neo4jClient.resolve_entity and create_microaction_relations             *)
(***************************************************************************)
resolve_entity(g, entity_id) ==
    IF MatchId(g, "Person", entity_id) # {} THEN "Person"
    ELSE IF MatchId(g, "Organization", entity_id) # {} THEN "Organization"
    ELSE NoId

PersonOrOrg(g, entity_id) ==
    MatchId(g, "Person", entity_id) \cup MatchId(g, "Organization", entity_id)

create_microaction_relations(g, micro_id, actor_id, recipient_id) ==
    [g EXCEPT !.edges = @
        \cup (IF actor_id # NoId /\ resolve_entity(g, actor_id) # NoId
              THEN {Edge("PERFORMED", x, y) : x \in PersonOrOrg(g, actor_id),
                                              y \in MatchKey(g, "MicroAction", micro_id)}
              ELSE {})
        \cup (IF recipient_id # NoId /\ resolve_entity(g, recipient_id) # NoId
              THEN {Edge("RECEIVED", x, y) : x \in MatchKey(g, "MicroAction", micro_id),
                                             y \in PersonOrOrg(g, recipient_id)}
              ELSE {})]

\* the "introuvable" messages printed by create_microaction_relations
MicroactionWarnings(g, micro) ==
    (IF micro.properties.actor_id # NoId
        /\ resolve_entity(g, micro.properties.actor_id) = NoId
     THEN {<<"PERFORMED", micro.micro_id, micro.properties.actor_id>>} ELSE {})
    \cup (IF micro.properties.recipient_id # NoId
             /\ resolve_entity(g, micro.properties.recipient_id) = NoId
          THEN {<<"RECEIVED", micro.micro_id, micro.properties.recipient_id>>} ELSE {})

(***************************************************************************)
(* Neo4jClient.import_microactions: one iteration of the loop; concerns_ok *)
(* is FALSE when the CONCERNS statement raises (the exception is caught    *)
(* and printed, the loop goes on).                                         *)
(***************************************************************************)
MicroactionEdges(g, m, props, references, concerns_ok) ==
    [g EXCEPT !.edges = @
        \cup (IF props.about_id # NoId /\ concerns_ok
              THEN {Edge("CONCERNS", x, y) :
                       x \in m, y \in MatchId(g, "Person", props.about_id)}
              ELSE {})
        \cup {Edge("REFERENCES", x, y) :
                 x \in m, y \in UNION {MatchId(g, AnyLabel, ref_id) : ref_id \in references}}]

ImportMicroactionWith(g, micro, props, concerns_ok) ==
    MicroactionEdges(
        create_microaction_relations(
            CreateAssertion(MergeWithProps(g, "MicroAction", micro.micro_id, props),
                            "MicroAction", micro.micro_id, micro.assertion),
            micro.micro_id, props.actor_id, props.recipient_id),
        {Node("MicroAction", micro.micro_id, 0)}, props, micro.references, concerns_ok)

ImportMicroaction(g, micro, concerns_ok) ==
    ImportMicroactionWith(g, micro, DeriveDates(micro.properties), concerns_ok)

\* the targets the micro-action's edges look for and do not find
MicroactionMisses(g, micro) ==
    MicroactionWarnings(g, micro)
    \cup (IF micro.properties.about_id # NoId
             /\ MatchId(g, "Person", micro.properties.about_id) = {}
          THEN {<<"CONCERNS", micro.micro_id, micro.properties.about_id>>} ELSE {})
    \cup {<<"REFERENCES", micro.micro_id, ref_id>> :
             ref_id \in {x \in micro.references : MatchId(g, AnyLabel, x) = {}}}

ImportMicroactions(g, microactions) ==
    LET f[k \in 0..Len(microactions)] ==
            IF k = 0 THEN g ELSE ImportMicroaction(f[k - 1], microactions[k], TRUE)
    IN  f[Len(microactions)]

(***************************************************************************)
(* Cypher's view of the stored date strings: date(s) / datetime(s) of      *)
(* "YYYY", "YYYY-MM" or "YYYY-MM-DD" as a day number (missing month or day *)
(* is 1), and the comparison of two strings with < and >.                  *)
(***************************************************************************)
DaysBeforeYear(y) == 365 * (y - 1) + ((y - 1) \div 4) - ((y - 1) \div 100) + ((y - 1) \div 400)

RECURSIVE DaysBeforeMonth(_, _)
DaysBeforeMonth(y, m) ==
    IF m <= 1 THEN 0 ELSE DaysBeforeMonth(y, m - 1) + monthrange(y, m - 1)

CypherDate(s) ==
    LET y == ToInt(SubSeq(s, 1, 4))
        m == IF Len(s) >= 7 THEN ToInt(SubSeq(s, 6, 7)) ELSE 1
        d == IF Len(s) >= 10 THEN ToInt(SubSeq(s, 9, 10)) ELSE 1
    IN  DaysBeforeYear(y) + DaysBeforeMonth(y, m) + d

CharOrder == <<" ", "-", ".", "/", "0", "1", "2", "3", "4", "5", "6", "7", "8", "9", "?", "~">>

CharRank(c) == CHOOSE k \in 1..Len(CharOrder) : CharOrder[k] = c

RECURSIVE StrLess(_, _)
StrLess(a, b) ==
    IF b = <<>> THEN FALSE
    ELSE IF a = <<>> THEN TRUE
    ELSE IF a[1] = b[1] THEN StrLess(Tail(a), Tail(b))
    ELSE CharRank(a[1]) < CharRank(b[1])

(***************************************************************************)
(* RelationCalculator: the four rules over the committed graph             *)
(***************************************************************************)
chain_max_days == 14

MicroActions(g) == {x \in g.nodes : x.label = "MicroAction"}

Events(g) == {x \in g.nodes : x.label = "Event"}

\* link types whose lower-case form contains 'replies_to' or 'acknowledges_receipt'
ReplyLinkTypes == {"replies_to", "acknowledges_receipt", "REPLIES_TO"}

\* (m)-[:CONCERNS|REFERENCES]->(p:Person)
PersonsOf(g, m) ==
    {e.dst : e \in {x \in g.edges : x.src = m /\ x.type \in {"CONCERNS", "REFERENCES"}
                                              /\ x.dst.label = "Person"}}

\* the flagged micro-actions, those already linked included
Replies_unguarded(g) ==
    {reply \in MicroActions(g) :
        /\ g.props[reply].link_type \in ReplyLinkTypes
        /\ g.props[reply].actor_id # NoId
        /\ g.props[reply].recipient_id # NoId
        /\ g.props[reply].date_start # None}

Replies(g) ==
    {reply \in MicroActions(g) :
        /\ g.props[reply].link_type \in ReplyLinkTypes
        /\ g.props[reply].actor_id # NoId
        /\ g.props[reply].recipient_id # NoId
        /\ g.props[reply].date_start # None
        /\ ~\E e \in g.edges : e.type = "REPLIES_TO" /\ e.src = reply}

ReplyCandidates(g, reply) ==
    {original \in MicroActions(g) :
        /\ g.props[original].actor_id = g.props[reply].recipient_id
        /\ g.props[original].recipient_id = g.props[reply].actor_id
        /\ g.props[original].date_start # None
        /\ CypherDate(g.props[original].date_start) < CypherDate(g.props[reply].date_start)}

\* LIMIT 1 without the ORDER BY: any candidate
LatestCandidates_any(g, reply) == ReplyCandidates(g, reply)

\* ORDER BY date(original.date_start) DESC LIMIT 1: any candidate of the latest date
LatestCandidates(g, reply) ==
    {original \in ReplyCandidates(g, reply) :
        \A other \in ReplyCandidates(g, reply) :
            CypherDate(g.props[other].date_start) <= CypherDate(g.props[original].date_start)}

\* the sets of REPLIES_TO edges one run of the rule may merge
calculate_replies_to(g) ==
    LET R == {reply \in Replies(g) : LatestCandidates(g, reply) # {}}
    IN  {{Edge("REPLIES_TO", reply, pick[reply]) : reply \in R} :
            pick \in {f \in [R -> MicroActions(g)] :
                         \A reply \in R : f[reply] \in LatestCandidates(g, reply)}}

calculate_next_in_chain(g) ==
    {Edge("NEXT_IN_COMMUNICATION_CHAIN", m2, m1) : <<m1, m2>> \in
        {<<m1, m2>> \in MicroActions(g) \X MicroActions(g) :
            /\ g.props[m1].actor_id # NoId
            /\ g.props[m1].actor_id = g.props[m2].actor_id
            /\ g.props[m1].recipient_id # NoId
            /\ g.props[m1].recipient_id = g.props[m2].recipient_id
            /\ g.props[m1].date_start # None
            /\ g.props[m2].date_start # None
            /\ StrLess(g.props[m2].date_start, g.props[m1].date_start)
            /\ CypherDate(g.props[m1].date_start) - CypherDate(g.props[m2].date_start)
                   <= chain_max_days
            /\ PersonsOf(g, m1) \cap PersonsOf(g, m2) # {}
            /\ ~\E m3 \in MicroActions(g) :
                   /\ g.props[m3].actor_id = g.props[m1].actor_id
                   /\ g.props[m3].recipient_id = g.props[m1].recipient_id
                   /\ g.props[m3].date_start # None
                   /\ StrLess(g.props[m2].date_start, g.props[m3].date_start)
                   /\ StrLess(g.props[m3].date_start, g.props[m1].date_start)
                   /\ PersonsOf(g, m3) \cap PersonsOf(g, m1) # {}}}

\* the second value whatever the first is
coalesce_second(a, b) == b

\* Cypher coalesce(a, b): the first value that is not null
coalesce(a, b) == IF a # None THEN a ELSE b

calculate_acted_in_context(g) ==
    {Edge("ACTED_IN_CONTEXT_OF", m, e) : <<m, e>> \in
        {<<m, e>> \in MicroActions(g) \X Events(g) :
            /\ \E p \in PersonsOf(g, m) : g.props[e].victim_id = p.key
            /\ g.props[m].date_start # None
            /\ g.props[e].date_start # None
            /\ LET m_start == CypherDate(g.props[m].date_start)
                   m_end == CypherDate(coalesce(g.props[m].date_end, g.props[m].date_start))
                   e_start == CypherDate(g.props[e].date_start)
                   e_end == CypherDate(coalesce(g.props[e].date_end, g.props[e].date_start))
               IN  m_start <= e_end /\ m_end >= e_start}}

calculate_case_timeline(g) ==
    {Edge("FOLLOWS_IN_CASE", e1, e2) : <<e1, e2>> \in
        {<<e1, e2>> \in Events(g) \X Events(g) :
            /\ g.props[e1].victim_id # NoId
            /\ g.props[e1].victim_id = g.props[e2].victim_id
            /\ g.props[e1].date_start # None
            /\ g.props[e2].date_start # None
            /\ StrLess(g.props[e1].date_start, g.props[e2].date_start)
            /\ ~\E e3 \in Events(g) :
                   /\ g.props[e3].victim_id = g.props[e1].victim_id
                   /\ g.props[e3].date_start # None
                   /\ StrLess(g.props[e1].date_start, g.props[e3].date_start)
                   /\ StrLess(g.props[e3].date_start, g.props[e2].date_start)}}

\* the note variables while no vault is being parsed
NoteIdle ==
    /\ npc = "idle"
    /\ vault = <<>>
    /\ pos = 0
    /\ doc_id_index = <<>>
    /\ doc_list = <<>>
    /\ warnings = <<>>
    /\ note = <<>>
    /\ record = <<>>

\* the date variables while no date expression is being parsed
NoTok == [k |-> "Y", y |-> 0, m |-> 1, d |-> 1]

NoResult == [date_start |-> None, date_end |-> None, date_precision |-> "none"]

DateIdle ==
    /\ dpc = "idle"
    /\ dateIn = [shape |-> "raw", a |-> NoTok, b |-> NoTok, raw |-> <<>>]
    /\ edtf_string = <<>>
    /\ parsed = NoResult
    /\ derived = NoResult

(***************************************************************************)
(* The batches a run is given.  Ids: g1 (GPE), o1, o2 (Organization),      *)
(* p1, p2 (Person), d1 (ArchiveDocument); g9 and zz name no note.          *)
(***************************************************************************)
MaxEntities == 3

MaxCommits == 2

Entity(label, id, specific, generic, structures) ==
    [label |-> label, id |-> id, specific_relations |-> specific,
     generic_references |-> generic, structures |-> structures]

Item(kind, rid, organization, place, target, organization_context) ==
    [kind |-> kind, rid |-> rid, organization |-> organization, place |-> place,
     target |-> target, organization_context |-> organization_context]

EntityPool ==
    {Entity("GPE", "g1", <<>>, {"p1"}, <<>>),
     Entity("Organization", "o1", << <<"IS_PART_OF", "o2">>, <<"LOCATED_IN", "g1">> >>,
            {}, <<>>),
     Entity("Organization", "o2", <<>>, {"o1"}, <<>>),
     Entity("Person", "p1", << <<"WORKED_FOR", "o1">> >>, {"zz"},
            <<Item("occupations", "r1", "o1", "g1", NoId, NoId)>>),
     Entity("Person", "p2", << <<"LOCATED_IN", "g9">> >>, {},
            <<Item("family_relations", "r2", NoId, NoId, "p1", NoId)>>)}

\* the sequences of at most n distinct members of S
RECURSIVE SeqsOf(_, _)
SeqsOf(S, n) ==
    IF n = 0 THEN {<<>>}
    ELSE LET shorter == SeqsOf(S, n - 1)
         IN  shorter \cup {Append(q, x) : <<q, x>> \in
                              {<<q, x>> \in shorter \X S :
                                  Len(q) = n - 1 /\ \A k \in 1..Len(q) : q[k] # x}}

EntityBatches == SeqsOf(EntityPool, MaxEntities)

Year1943 == <<"1", "9", "4", "3">>

Before1944Feb == <<".", ".", "/", "1", "9", "4", "4", "-", "0", "2">>

Day19440201 == <<"1", "9", "4", "4", "-", "0", "2", "-", "0", "1">>

\* the record properties as the note extractors build them: the date fields
\* are those of EDTFParser.parse
RecordProps(date_edtf, actor, recipient, about, victim, agent, place, link_type) ==
    [date_edtf |-> date_edtf,
     date_start |-> EDTFParse(date_edtf).date_start,
     date_end |-> EDTFParse(date_edtf).date_end,
     date_precision |-> EDTFParse(date_edtf).date_precision,
     actor_id |-> actor, recipient_id |-> recipient, about_id |-> about,
     victim_id |-> victim, agent_id |-> agent, place_id |-> place,
     link_type |-> link_type]

\* f"{event_id}::assertion" / f"{micro_id}::assertion"
AssertionId(id) ==
    CASE id = "e1" -> "e1::assertion"
      [] id = "e2" -> "e2::assertion"
      [] id = "e3" -> "e3::assertion"
      [] id = "m1" -> "m1::assertion"
      [] id = "m2" -> "m2::assertion"
      [] OTHER -> "m3::assertion"

Assertion(id, doc_id) == [assertion_id |-> AssertionId(id), doc_id |-> doc_id]

DocumentBatches == {<<>>, <<[id |-> "d1", references |-> {"p1", "zz"}]>>}

EventBatches ==
    {<<>>}
    \cup {<<[event_id |-> "e1",
             properties |-> RecordProps(d, NoId, NoId, NoId, "p1", UNKNOWN_AUTHORITY,
                                        "g1", NoId),
             assertion |-> Assertion("e1", "d1"),
             references |-> {"p2"}]>> : d \in {None, Year1943, Before1944Feb}}

MicroactionBatches ==
    {<<>>}
    \cup {<<[micro_id |-> "m1",
             properties |-> RecordProps(Day19440201, a, "o1", "p1", NoId, NoId, NoId,
                                        "replies_to"),
             assertion |-> Assertion("m1", "d1"),
             references |-> {"p2"}]>> : a \in {"p1", "zz"}}

Batches ==
    [entities : EntityBatches, documents : DocumentBatches, events : EventBatches,
     microactions : MicroactionBatches, calculated_relations_enable : BOOLEAN]

NoBatch ==
    [entities |-> <<>>, documents |-> <<>>, events |-> <<>>, microactions |-> <<>>,
     calculated_relations_enable |-> FALSE]

\* what an earlier run left in the database
StaleGraph == [EmptyGraph EXCEPT !.nodes = {Node("Person", "old", 0)}]

(***************************************************************************)
(* main(): connect, clear the database, create the constraints, import the *)
(* four batches, compute the derived relations, validate.                  *)
(***************************************************************************)
ProjIdle ==
    /\ pc = "idle"
    /\ idx = 1
    /\ batch = NoBatch
    /\ graph = EmptyGraph
    /\ writes = <<>>
    /\ commits = 0
    /\ committed = EmptyGraph
    /\ missed = {}
    /\ missLog = {}

Init ==
    /\ DateIdle
    /\ NoteIdle
    /\ pc = "connect"
    /\ idx = 1
    /\ batch \in Batches
    /\ graph = StaleGraph
    /\ writes = <<>>
    /\ commits = 1
    /\ committed = EmptyGraph
    /\ missed = {}
    /\ missLog = {}

Written(phase, label, ok) == [phase |-> phase, label |-> label, ok |-> ok]

entities_sorted == SortByLabel(batch.entities)

BatchPhases == {"entities_pass1", "entities_pass2", "documents", "events", "microactions"}

CurrentBatch ==
    CASE pc \in {"entities_pass1", "entities_pass2"} -> entities_sorted
      [] pc = "documents" -> batch.documents
      [] pc = "events" -> batch.events
      [] pc = "microactions" -> batch.microactions
      [] OTHER -> <<>>

AfterBatch ==
    CASE pc = "entities_pass1" -> "entities_pass2"
      [] pc = "entities_pass2" -> "documents"
      [] pc = "documents" -> "events"
      [] pc = "events" -> "microactions"
      [] OTHER -> IF batch.calculated_relations_enable THEN "replies" ELSE "validation"

Connect ==
    /\ pc = "connect"
    /\ pc' = "clear"
    /\ UNCHANGED <<idx, batch, graph, writes, commits, committed, missed, missLog, dateVars, noteVars>>

\* MATCH (n) DETACH DELETE n
ClearDatabase ==
    /\ pc = "clear"
    /\ graph' = EmptyGraph
    /\ writes' = Append(writes, Written("clear", "-", TRUE))
    /\ pc' = "constraints"
    /\ UNCHANGED <<idx, batch, commits, committed, missed, missLog, dateVars, noteVars>>

\* each statement runs in try / except Exception: pass, so a statement that
\* fails (ok = FALSE) is followed by the remaining ones and by the imports
CreateConstraints ==
    /\ pc = "constraints"
    /\ \E ok \in BOOLEAN : writes' = Append(writes, Written("constraints", "-", ok))
    /\ pc' = "entities_pass1"
    /\ idx' = 1
    /\ UNCHANGED <<batch, graph, commits, committed, missed, missLog, dateVars, noteVars>>

ImportEntityPass1 ==
    /\ pc = "entities_pass1"
    /\ idx <= Len(entities_sorted)
    /\ graph' = EntityPass1(graph, entities_sorted[idx])
    /\ missed' = missed \cup EntityMisses(graph, entities_sorted[idx])
    /\ writes' = Append(writes, Written("entities", entities_sorted[idx].label, TRUE))
    /\ idx' = idx + 1
    /\ UNCHANGED <<pc, batch, commits, committed, missLog, dateVars, noteVars>>

ImportEntityPass2 ==
    /\ pc = "entities_pass2"
    /\ idx <= Len(entities_sorted)
    /\ graph' = EntityPass2(graph, entities_sorted[idx])
    /\ missed' = missed \cup StructMisses(graph, entities_sorted[idx])
    /\ writes' = Append(writes, Written("entities", "structures", TRUE))
    /\ idx' = idx + 1
    /\ UNCHANGED <<pc, batch, commits, committed, missLog, dateVars, noteVars>>

ImportDocumentStep ==
    /\ pc = "documents"
    /\ idx <= Len(batch.documents)
    /\ graph' = ImportDocument(graph, batch.documents[idx])
    /\ writes' = Append(writes, Written("documents", "-", TRUE))
    /\ idx' = idx + 1
    /\ UNCHANGED <<pc, batch, commits, committed, missed, missLog, dateVars, noteVars>>

ImportEventStep ==
    /\ pc = "events"
    /\ idx <= Len(batch.events)
    /\ graph' = ImportEvent(graph, batch.events[idx])
    /\ writes' = Append(writes, Written("events", "-", TRUE))
    /\ idx' = idx + 1
    /\ UNCHANGED <<pc, batch, commits, committed, missed, missLog, dateVars, noteVars>>

\* the CONCERNS statement is issued when about_id is set; when it raises
\* (concerns_ok = FALSE) the exception is printed and the loop goes on
ImportMicroactionStep ==
    /\ pc = "microactions"
    /\ idx <= Len(batch.microactions)
    /\ \E concerns_ok \in BOOLEAN :
          /\ concerns_ok \/ batch.microactions[idx].properties.about_id # NoId
          /\ graph' = ImportMicroaction(graph, batch.microactions[idx], concerns_ok)
          /\ writes' = writes
                 \o <<Written("microactions", "-", TRUE)>>
                 \o (IF concerns_ok THEN <<>>
                     ELSE <<Written("microactions", "CONCERNS", FALSE)>>)
                 \o (IF batch.microactions[idx].references = {} THEN <<>>
                     ELSE <<Written("microactions", "REFERENCES", TRUE)>>)
    /\ missed' = missed \cup MicroactionMisses(graph, batch.microactions[idx])
    /\ missLog' = missLog \cup MicroactionWarnings(graph, batch.microactions[idx])
    /\ idx' = idx + 1
    /\ UNCHANGED <<pc, batch, commits, committed, dateVars, noteVars>>

\* the loop over a batch is over: main() goes on to the next call
EndBatch ==
    /\ pc \in BatchPhases
    /\ idx > Len(CurrentBatch)
    /\ pc' = AfterBatch
    /\ idx' = 1
    /\ UNCHANGED <<batch, graph, writes, commits, committed, missed, missLog, dateVars, noteVars>>

RunReplies ==
    /\ pc = "replies"
    /\ \E created \in calculate_replies_to(graph) :
          graph' = [graph EXCEPT !.edges = @ \cup created]
    /\ writes' = Append(writes, Written("inference", "REPLIES_TO", TRUE))
    /\ pc' = "chain"
    /\ UNCHANGED <<idx, batch, commits, committed, missed, missLog, dateVars, noteVars>>

RunChain ==
    /\ pc = "chain"
    /\ graph' = [graph EXCEPT !.edges = @ \cup calculate_next_in_chain(graph)]
    /\ writes' = Append(writes, Written("inference", "NEXT_IN_COMMUNICATION_CHAIN", TRUE))
    /\ pc' = "context"
    /\ UNCHANGED <<idx, batch, commits, committed, missed, missLog, dateVars, noteVars>>

RunContext ==
    /\ pc = "context"
    /\ graph' = [graph EXCEPT !.edges = @ \cup calculate_acted_in_context(graph)]
    /\ writes' = Append(writes, Written("inference", "ACTED_IN_CONTEXT_OF", TRUE))
    /\ pc' = "timeline"
    /\ UNCHANGED <<idx, batch, commits, committed, missed, missLog, dateVars, noteVars>>

RunTimeline ==
    /\ pc = "timeline"
    /\ graph' = [graph EXCEPT !.edges = @ \cup calculate_case_timeline(graph)]
    /\ writes' = Append(writes, Written("inference", "FOLLOWS_IN_CASE", TRUE))
    /\ pc' = "validation"
    /\ UNCHANGED <<idx, batch, commits, committed, missed, missLog, dateVars, noteVars>>

\* the validation queries, then (with write_detailed_report) the enrichment
\* of the REFERENCES edges
Validate ==
    /\ pc = "validation"
    /\ \E write_detailed_report \in BOOLEAN :
          writes' = IF write_detailed_report
                    THEN Append(writes, Written("enrichment", "-", TRUE))
                    ELSE writes
    /\ pc' = "success"
    /\ UNCHANGED <<idx, batch, graph, commits, committed, missed, missLog, dateVars, noteVars>>

\* a backend call raises a connectivity error that reaches main()'s except
\* clause (or connect()'s): sys.exit(1)
BackendFailure ==
    /\ \/ pc \in {"connect", "clear", "replies", "chain", "context", "timeline",
                  "validation"}
       \/ pc \in BatchPhases /\ idx <= Len(CurrentBatch)
    /\ writes' = Append(writes, Written(pc, "-", FALSE))
    /\ pc' = "aborted"
    /\ UNCHANGED <<idx, batch, graph, commits, committed, missed, missLog, dateVars, noteVars>>

Next ==
    \/ Connect
    \/ ClearDatabase
    \/ CreateConstraints
    \/ ImportEntityPass1
    \/ ImportEntityPass2
    \/ ImportDocumentStep
    \/ ImportEventStep
    \/ ImportMicroactionStep
    \/ EndBatch
    \/ RunReplies
    \/ RunChain
    \/ RunContext
    \/ RunTimeline
    \/ Validate
    \/ BackendFailure

Spec == Init /\ [][Next]_vars

(***************************************************************************)
(* The four import methods called again on the same batches, against the   *)
(* graph the first commit left (no clear_database in between).             *)
(***************************************************************************)
Recommit ==
    /\ pc \in {"replies", "validation"}
    /\ commits < MaxCommits
    /\ committed' = graph
    /\ commits' = commits + 1
    /\ pc' = "entities_pass1"
    /\ idx' = 1
    /\ UNCHANGED <<batch, graph, writes, missed, missLog, dateVars, noteVars>>

NextRecommit == Next \/ Recommit

SpecRecommit == Init /\ [][NextRecommit]_vars

(***************************************************************************)
(* RelationCalculator on a committed graph: the four rules, run any number *)
(* of times in any order on the graph the import left.  p1 and p2 write to *)
(* each other about p1; e1 is an event p1 was the victim of.               *)
(***************************************************************************)
MaxRuns == 3

Day19440120 == <<"1", "9", "4", "4", "-", "0", "1", "-", "2", "0">>

Month194402 == <<"1", "9", "4", "4", "-", "0", "2">>

Day19440301 == <<"1", "9", "4", "4", "-", "0", "3", "-", "0", "1">>

InferDates == {None, Day19440120, Month194402, Day19440201, Day19440301}

InferMicro(id, actor, recipient, date_edtf, link_type) ==
    [micro_id |-> id,
     properties |-> RecordProps(date_edtf, actor, recipient, "p1", NoId, NoId, NoId,
                                link_type),
     assertion |-> Assertion(id, "d1"),
     references |-> {}]

InferMicroBatches ==
    {<<InferMicro("m1", "p1", "p2", d1, "informs"),
       InferMicro("m2", w[1], w[2], d2, l2),
       InferMicro("m3", v[1], v[2], d3, l3)>> :
        d1 \in InferDates, d2 \in InferDates, d3 \in InferDates,
        w \in {<<"p1", "p2">>, <<"p2", "p1">>}, v \in {<<"p1", "p2">>, <<"p2", "p1">>},
        l2 \in {"informs", "replies_to"}, l3 \in {"replies_to", "acknowledges_receipt"}}

InferBatches ==
    [entities : {<<Entity("Person", "p1", <<>>, {}, <<>>),
                   Entity("Person", "p2", <<>>, {}, <<>>)>>},
     documents : {<<[id |-> "d1", references |-> {}]>>},
     events : {<<[event_id |-> "e1",
                  properties |-> RecordProps(Month194402, NoId, NoId, NoId, "p1",
                                             UNKNOWN_AUTHORITY, NoId, NoId),
                  assertion |-> Assertion("e1", "d1"),
                  references |-> {}],
                 [event_id |-> "e2",
                  properties |-> RecordProps(Day19440301, NoId, NoId, NoId, "p1",
                                             UNKNOWN_AUTHORITY, NoId, NoId),
                  assertion |-> Assertion("e2", "d1"),
                  references |-> {}]>>},
     microactions : InferMicroBatches,
     calculated_relations_enable : {TRUE}]

\* the four import calls of main(), in its order
CommitBatches(g, b) ==
    ImportMicroactions(
        ImportEvents(ImportDocuments(ImportEntities(g, b.entities), b.documents), b.events),
        b.microactions)

InitInfer ==
    /\ DateIdle
    /\ NoteIdle
    /\ pc = "inference"
    /\ idx = 1
    /\ batch \in InferBatches
    /\ graph = CommitBatches(EmptyGraph, batch)
    /\ writes = <<>>
    /\ commits = 1
    /\ committed = EmptyGraph
    /\ missed = {}
    /\ missLog = {}

InferReplies ==
    /\ pc = "inference"
    /\ Len(writes) < MaxRuns
    /\ \E created \in calculate_replies_to(graph) :
          graph' = [graph EXCEPT !.edges = @ \cup created]
    /\ writes' = Append(writes, Written("inference", "REPLIES_TO", TRUE))
    /\ UNCHANGED <<pc, idx, batch, commits, committed, missed, missLog, dateVars, noteVars>>

InferChain ==
    /\ pc = "inference"
    /\ Len(writes) < MaxRuns
    /\ graph' = [graph EXCEPT !.edges = @ \cup calculate_next_in_chain(graph)]
    /\ writes' = Append(writes, Written("inference", "NEXT_IN_COMMUNICATION_CHAIN", TRUE))
    /\ UNCHANGED <<pc, idx, batch, commits, committed, missed, missLog, dateVars, noteVars>>

InferContext ==
    /\ pc = "inference"
    /\ Len(writes) < MaxRuns
    /\ graph' = [graph EXCEPT !.edges = @ \cup calculate_acted_in_context(graph)]
    /\ writes' = Append(writes, Written("inference", "ACTED_IN_CONTEXT_OF", TRUE))
    /\ UNCHANGED <<pc, idx, batch, commits, committed, missed, missLog, dateVars, noteVars>>

InferTimeline ==
    /\ pc = "inference"
    /\ Len(writes) < MaxRuns
    /\ graph' = [graph EXCEPT !.edges = @ \cup calculate_case_timeline(graph)]
    /\ writes' = Append(writes, Written("inference", "FOLLOWS_IN_CASE", TRUE))
    /\ UNCHANGED <<pc, idx, batch, commits, committed, missed, missLog, dateVars, noteVars>>

NextInfer == InferReplies \/ InferChain \/ InferContext \/ InferTimeline

SpecInfer == InitInfer /\ [][NextInfer]_vars

(***************************************************************************)
(* The rules on a graph of three messages between p1 and p2, each about    *)
(* p1, p2, both or nobody: m1 is the oldest, m2 and m3 follow within or    *)
(* beyond the chain window.                                                *)
(***************************************************************************)
Day19440203 == <<"1", "9", "4", "4", "-", "0", "2", "-", "0", "3">>

ChainMicro(id, actor, recipient, date_edtf, about, references) ==
    [micro_id |-> id,
     properties |-> RecordProps(date_edtf, actor, recipient, about, NoId, NoId, NoId,
                                "informs"),
     assertion |-> Assertion(id, "d1"),
     references |-> references]

\* <<about_id, references>>: the persons a message concerns and mentions
PersonChoices == {NoId, "p1"} \X {{}, {"p2"}}

ChainMicroBatches ==
    {<<ChainMicro("m1", "p1", "p2", Day19440120, c1[1], c1[2]),
       ChainMicro("m2", "p1", r2, d2, c2[1], c2[2]),
       ChainMicro("m3", "p1", "p2", d3, c3[1], c3[2])>> :
        c1 \in PersonChoices, c2 \in PersonChoices, c3 \in PersonChoices,
        r2 \in {"p2", "o1"},
        d2 \in {None, Day19440120, Day19440201, Month194402},
        d3 \in {Day19440201, Day19440203, Day19440301}}

ChainBatches ==
    [entities : {<<Entity("Organization", "o1", <<>>, {}, <<>>),
                   Entity("Person", "p1", <<>>, {}, <<>>),
                   Entity("Person", "p2", <<>>, {}, <<>>)>>},
     documents : {<<[id |-> "d1", references |-> {}]>>},
     events : {<<>>},
     microactions : ChainMicroBatches,
     calculated_relations_enable : {TRUE}]

InitChain ==
    /\ DateIdle
    /\ NoteIdle
    /\ pc = "inference"
    /\ idx = 1
    /\ batch \in ChainBatches
    /\ graph = CommitBatches(EmptyGraph, batch)
    /\ writes = <<>>
    /\ commits = 1
    /\ committed = EmptyGraph
    /\ missed = {}
    /\ missLog = {}

SpecChain == InitChain /\ [][NextInfer]_vars

(***************************************************************************)
(* The rules on a graph of three events and one message: e1 and e3 have    *)
(* victim p1, e2 has victim p1, p2 or none; the message concerns p1,       *)
(* mentions p2, both or nobody.  Dates are days, months, closed intervals  *)
(* and intervals open on one side.                                         *)
(***************************************************************************)
From0120To0203 == Day19440120 \o <<"/">> \o Day19440203

From0201To0301 == Day19440201 \o <<"/">> \o Day19440301

After19440201 == Day19440201 \o <<"/", ".", ".">>

After19440203 == Day19440203 \o <<"/", ".", ".">>

CaseEvent(id, victim, date_edtf) ==
    [event_id |-> id,
     properties |-> RecordProps(date_edtf, NoId, NoId, NoId, victim, UNKNOWN_AUTHORITY,
                                NoId, NoId),
     assertion |-> Assertion(id, "d1"),
     references |-> {}]

CaseEventBatches ==
    {<<CaseEvent("e1", "p1", d1), CaseEvent("e2", v2, d2), CaseEvent("e3", "p1", d3)>> :
        d1 \in {Day19440120, Month194402, From0120To0203},
        v2 \in {NoId, "p1", "p2"},
        d2 \in {None, Day19440201, Day19440301, After19440201},
        d3 \in {Day19440201, Day19440203, Before1944Feb}}

CaseMicroBatches ==
    {<<ChainMicro("m1", "p2", "o1", d, c[1], c[2])>> :
        c \in PersonChoices,
        d \in {None, Day19440120, From0201To0301, After19440203}}

CaseBatches ==
    [entities : {<<Entity("Organization", "o1", <<>>, {}, <<>>),
                   Entity("Person", "p1", <<>>, {}, <<>>),
                   Entity("Person", "p2", <<>>, {}, <<>>)>>},
     documents : {<<[id |-> "d1", references |-> {}]>>},
     events : CaseEventBatches,
     microactions : CaseMicroBatches,
     calculated_relations_enable : {TRUE}]

InitCase ==
    /\ DateIdle
    /\ NoteIdle
    /\ pc = "inference"
    /\ idx = 1
    /\ batch \in CaseBatches
    /\ graph = CommitBatches(EmptyGraph, batch)
    /\ writes = <<>>
    /\ commits = 1
    /\ committed = EmptyGraph
    /\ missed = {}
    /\ missLog = {}

SpecCase == InitCase /\ [][NextInfer]_vars

(***************************************************************************)
(* DocumentParser (utils/document_parser.py).  A file is a path and what   *)
(* its text makes of it:                                                   *)
(*   "unreadable"  read_text raises (the bytes are not UTF-8),             *)
(*   "note"        the front matter has no archive key: no document,       *)
(*   "archive"     an archive document that parses,                        *)
(*   "bad_date"    an archive document whose front matter date is not a    *)
(*                 string (YAML reads 1944 as an integer), so that         *)
(*                 EDTFParser.parse raises on edtf_string.strip().         *)
(***************************************************************************)
FileKinds == {"unreadable", "note", "archive", "bad_date"}

Path(dir, name) == [dir |-> dir, name |-> name]

\* str(file_path)
PathStr(file_path) == file_path.dir \o "/" \o file_path.name

\* hashlib.sha1(file_name).hexdigest(), the digests cut to their first
\* eight characters
sha1(file_name) ==
    CASE file_name = "letter.md" -> "6f1c03ab"
      [] file_name = "report.md" -> "d29e47c5"
      [] OTHER -> "0b5a88e1"

NoWarnings == [parse_errors |-> <<>>, document_id_collisions |-> <<>>]

\* the state of one parse_all call
ParserState(index, docs, w) == [doc_id_index |-> index, documents |-> docs, warnings |-> w]

NewParser == ParserState(<<>>, <<>>, NoWarnings)

base_id(file_path) == "/id/document/" \o sha1(file_path.name)

\* the counter left as it is: every later file gets the suffix 1
build_document_id_uncounted(st, file_path) ==
    LET base == base_id(file_path)
    IN  IF base \in DOMAIN st.doc_id_index
        THEN [id |-> base \o "::" \o ToString(1),
              st |-> [st EXCEPT !.warnings.document_id_collisions =
                         Append(@, <<file_path.name,
                                     st.doc_id_index[base].original_path,
                                     PathStr(file_path)>>)]]
        ELSE [id |-> base,
              st |-> [st EXCEPT !.doc_id_index =
                         @ @@ (base :> [count |-> 0, original_path |-> PathStr(file_path)])]]

\* _build_document_id: the id and the parser state it leaves
build_document_id(st, file_path) ==
    LET base == base_id(file_path)
    IN  IF base \in DOMAIN st.doc_id_index
        THEN [id |-> base \o "::" \o ToString(st.doc_id_index[base].count + 1),
              st |-> [st EXCEPT !.doc_id_index[base].count = @ + 1,
                                !.warnings.document_id_collisions =
                                    Append(@, <<file_path.name,
                                                st.doc_id_index[base].original_path,
                                                PathStr(file_path)>>)]]
        ELSE [id |-> base,
              st |-> [st EXCEPT !.doc_id_index =
                         @ @@ (base :> [count |-> 0, original_path |-> PathStr(file_path)])]]

log_parse_error(st, file_path, error) ==
    [st EXCEPT !.warnings.parse_errors = Append(@, <<PathStr(file_path), error>>)]

\* one iteration of the loop of parse_all: _parse_document_file in its
\* try/except
parse_document_file(st, file) ==
    CASE file.kind = "unreadable" -> log_parse_error(st, file.path, "UnicodeDecodeError")
      [] file.kind = "note" -> st
      [] file.kind = "bad_date" ->
            log_parse_error(build_document_id(st, file.path).st, file.path, "AttributeError")
      [] OTHER ->
            LET built == build_document_id(st, file.path)
            IN  [built.st EXCEPT !.documents =
                    Append(@, [id |-> built.id, file_path |-> PathStr(file.path)])]

RECURSIVE parse_all_from(_, _)
\* the loop of parse_all over the files in the order given
parse_all_from(st, files) ==
    IF files = <<>> THEN st
    ELSE parse_all_from(parse_document_file(st, Head(files)), Tail(files))

parse_all(files) == parse_all_from(NewParser, files)

MaxFiles == 3

VaultPaths ==
    {Path("a", "letter.md"), Path("b", "letter.md"), Path("c", "letter.md"),
     Path("a", "report.md")}

\* the vaults of at most MaxFiles files, in every order rglob may yield
Vaults ==
    UNION {{v \in [1..n -> [path : VaultPaths, kind : FileKinds]] :
               \A i \in 1..n : \A j \in 1..n : i # j => v[i].path # v[j].path} :
           n \in 1..MaxFiles}

InitDocs ==
    /\ DateIdle
    /\ ProjIdle
    /\ npc = "parsing"
    /\ vault \in Vaults
    /\ pos = 1
    /\ doc_id_index = <<>>
    /\ doc_list = <<>>
    /\ warnings = NoWarnings
    /\ note = <<>>
    /\ record = <<>>

\* lines 38-47: the next file of the loop
ParseDocumentFile ==
    /\ npc = "parsing"
    /\ pos <= Len(vault)
    /\ LET st == parse_document_file(ParserState(doc_id_index, doc_list, warnings), vault[pos])
       IN  /\ doc_id_index' = st.doc_id_index
           /\ doc_list' = st.documents
           /\ warnings' = st.warnings
    /\ pos' = pos + 1
    /\ UNCHANGED <<npc, vault, note, record, dateVars, projVars>>

\* line 49: return documents, warnings
ReturnDocuments ==
    /\ npc = "parsing"
    /\ pos > Len(vault)
    /\ npc' = "returned"
    /\ UNCHANGED <<vault, pos, doc_id_index, doc_list, warnings, note, record, dateVars, projVars>>

NextDocs == ParseDocumentFile \/ ReturnDocuments

SpecDocs == InitDocs /\ [][NextDocs]_vars

\* EventParser._build_document_id_from_path and
\* MicroActionParser._build_document_id_from_path: the doc_id given to the
\* assertion of every block of the file
build_document_id_from_path(file_path) == "/id/document/" \o sha1(file_path.name)

(***************************************************************************)
(* WikilinkExtractor (utils/wikilink_extractor.py), on sequences of        *)
(* characters                                                              *)
(***************************************************************************)
ValueError == <<"ValueError">>

NL == "\n"

HexChars ==
    {"0", "1", "2", "3", "4", "5", "6", "7", "8", "9", "a", "b", "c", "d", "e", "f",
     "A", "B", "C", "D", "E", "F", "-"}

IdTypes ==
    {<<"p", "e", "r", "s", "o", "n">>, <<"o", "r", "g">>, <<"g", "p", "e">>,
     <<"p", "l", "a", "c", "e">>}

IdLen == 36

Drop(s, n) == SubSeq(s, n + 1, Len(s))

\* the length 'id/(?:person|org|gpe|place)/[0-9a-fA-F-]{36}' matches at the
\* start of s, 0 when it does not match
IdBodyLen(s) ==
    IF /\ StartsWith(s, <<"i", "d", "/">>)
       /\ \E t \in IdTypes :
             /\ StartsWith(Drop(s, 3), t \o <<"/">>)
             /\ Len(s) >= 4 + Len(t) + IdLen
             /\ \A i \in (5 + Len(t))..(4 + Len(t) + IdLen) : s[i] \in HexChars
    THEN 4 + Len(CHOOSE t \in IdTypes : StartsWith(Drop(s, 3), t \o <<"/">>)) + IdLen
    ELSE 0

\* ID_PATTERN.match(s): '^/id/(person|org|gpe|place)/[0-9a-fA-F-]{36}$',
\* where $ matches at the end of s and before a newline that ends s
MatchIdPattern(s) ==
    /\ s # <<>>
    /\ s[1] = "/"
    /\ IdBodyLen(Tail(s)) > 0
    /\ \/ Len(s) = 1 + IdBodyLen(Tail(s))
       \/ /\ Len(s) = 2 + IdBodyLen(Tail(s))
          /\ s[Len(s)] = NL

NoLinkWarnings == [auto_corrected_slashes |-> <<>>, invalid_wikilinks |-> <<>>]

\* lines 88-91: the slash correction and its log entry
SlashCorrected(cleaned, raw_link, w, line_num) ==
    IF StartsWith(cleaned, <<"/">>)
    THEN [cleaned |-> cleaned, w |-> w]
    ELSE [cleaned |-> <<"/">> \o cleaned,
          w |-> [w EXCEPT !.auto_corrected_slashes = Append(@, <<line_num, raw_link>>)]]

\* lines 94-100: the validation
Validated(c, raw_link, line_num) ==
    IF MatchIdPattern(c.cleaned)
    THEN [value |-> c.cleaned, w |-> c.w]
    ELSE [value |-> ValueError,
          w |-> [c.w EXCEPT !.invalid_wikilinks = Append(@, <<line_num, raw_link>>)]]

\* clean_id: the id returned or ValueError, and the warnings as it leaves them
clean_id(raw_link, w, line_num) ==
    Validated(SlashCorrected(Split(LStrip(RStrip(raw_link, {"[", "]"}), {"[", "]"}), "|")[1],
                             raw_link, w, line_num),
              raw_link, line_num)

\* the number of characters of s before the first "]"
RECURSIVE AliasLen(_)
AliasLen(s) == IF s = <<>> \/ s[1] = "]" THEN 0 ELSE 1 + AliasLen(Tail(s))

\* the length '(?:\|[^\]]+)?\]\]' matches at the start of s, 0 when it does
\* not match
TailLen(s) ==
    IF StartsWith(s, <<"]", "]">>) THEN 2
    ELSE IF /\ StartsWith(s, <<"|">>)
            /\ AliasLen(Tail(s)) > 0
            /\ StartsWith(Drop(s, 1 + AliasLen(Tail(s))), <<"]", "]">>)
    THEN 3 + AliasLen(Tail(s))
    ELSE 0

\* WIKILINK_PATTERN matched at the start of s: the length of the match (0:
\* none) and its group 1
WikilinkMatch(s) ==
    LET skip == IF StartsWith(s, <<"[", "[", "/">>) THEN 3 ELSE 2
        body == IdBodyLen(Drop(s, skip))
    IN  IF /\ StartsWith(s, <<"[", "[">>)
           /\ body > 0
           /\ TailLen(Drop(s, skip + body)) > 0
        THEN [len |-> skip + body + TailLen(Drop(s, skip + body)),
              group1 |-> SubSeq(s, skip + 1, skip + body)]
        ELSE [len |-> 0, group1 |-> <<>>]

\* text[:match.start()].count('\n') + 1
LineNum(text, start) == Cardinality({i \in 1..(start - 1) : text[i] = NL}) + 1

\* lines 113-118: the id of one match added unless clean_id raises
Collected(acc, cleaned) ==
    [ids |-> IF cleaned.value = ValueError THEN acc.ids ELSE acc.ids \cup {cleaned.value},
     w |-> cleaned.w]

RECURSIVE ExtractFrom(_, _, _)
\* the loop over WIKILINK_PATTERN.finditer(text) from position i on
ExtractFrom(text, i, acc) ==
    IF i > Len(text) THEN acc
    ELSE IF WikilinkMatch(Drop(text, i - 1)).len = 0 THEN ExtractFrom(text, i + 1, acc)
    ELSE ExtractFrom(text, i + WikilinkMatch(Drop(text, i - 1)).len,
                     Collected(acc, clean_id(WikilinkMatch(Drop(text, i - 1)).group1,
                                             acc.w, LineNum(text, i))))

extract_all_wikilinks(text, w) == ExtractFrom(text, 1, [ids |-> {}, w |-> w])

\* everything but the specific links
categorize_links_unfiltered(all_links, specific_links, entity_id) ==
    all_links \ {entity_id}

\* categorize_links: the generic references
categorize_links(all_links, specific_links, entity_id) ==
    (all_links \ specific_links) \ {entity_id}

(***************************************************************************)
(* The raw links clean_id and extract_all_wikilinks are applied to          *)
(***************************************************************************)
Rep(c, n) == [i \in 1..n |-> c]

\* an id of the shape 8-4-4-4-12 written with one character
Uuid(c) ==
    Rep(c, 8) \o <<"-">> \o Rep(c, 4) \o <<"-">> \o Rep(c, 4) \o <<"-">> \o Rep(c, 4)
        \o <<"-">> \o Rep(c, 12)

LinkBodies ==
    {Uuid("1"), Uuid("F"), Rep("-", IdLen), Rep("1", IdLen - 1), Rep("1", IdLen + 1),
     Rep("g", IdLen), <<"n", "o", "t", "-", "a", "-", "u", "u", "i", "d">>}

LinkTypes == IdTypes \cup {<<"d", "o", "c">>}

RawLinks ==
    {open \o slash \o <<"i", "d", "/">> \o t \o <<"/">> \o b \o alias \o close \o nl :
        open \in {<<>>, <<"[", "[">>},
        slash \in {<<>>, <<"/">>},
        t \in LinkTypes,
        b \in LinkBodies,
        alias \in {<<>>, <<"|", "A", "l">>},
        close \in {<<>>, <<"]", "]">>},
        nl \in {<<>>, <<NL>>}}

InitLinks ==
    /\ DateIdle
    /\ ProjIdle
    /\ npc = "link"
    /\ vault = <<>>
    /\ pos = 0
    /\ doc_id_index = <<>>
    /\ doc_list = <<>>
    /\ warnings = NoLinkWarnings
    /\ note \in RawLinks
    /\ record = <<>>

\* clean_id(note, warnings, file_path)
CleanId ==
    /\ npc = "link"
    /\ npc' = "cleaned"
    /\ record' = clean_id(note, warnings, 0).value
    /\ warnings' = clean_id(note, warnings, 0).w
    /\ UNCHANGED <<vault, pos, doc_id_index, doc_list, note, dateVars, projVars>>

\* extract_all_wikilinks of a line of text that holds the link
ExtractAllWikilinks ==
    /\ npc = "link"
    /\ npc' = "extracted"
    /\ record' = extract_all_wikilinks(<<"s", "e", "e", " ">> \o note, warnings).ids
    /\ warnings' = extract_all_wikilinks(<<"s", "e", "e", " ">> \o note, warnings).w
    /\ UNCHANGED <<vault, pos, doc_id_index, doc_list, note, dateVars, projVars>>

NextLinks == CleanId \/ ExtractAllWikilinks

SpecLinks == InitLinks /\ [][NextLinks]_vars

(***************************************************************************)
(* _extract_entity_id of EventParser and of MicroActionParser, applied to  *)
(* the value of a participant field (victim, agent, place; actor,          *)
(* recipient, about) as KV_RE captures it: one line, stripped.             *)
(***************************************************************************)
Sentinel ==
    <<"U", "N", "K", "N", "O", "W", "N", "_", "A", "U", "T", "H", "O", "R", "I", "T", "Y">>

LowerLetters ==
    <<"a", "b", "c", "d", "e", "f", "g", "h", "i", "j", "k", "l", "m", "n", "o", "p", "q",
      "r", "s", "t", "u", "v", "w", "x", "y", "z">>

UpperLetters ==
    <<"A", "B", "C", "D", "E", "F", "G", "H", "I", "J", "K", "L", "M", "N", "O", "P", "Q",
      "R", "S", "T", "U", "V", "W", "X", "Y", "Z">>

\* str.upper()
Upper(s) ==
    [i \in 1..Len(s) |->
        IF \E k \in 1..Len(LowerLetters) : LowerLetters[k] = s[i]
        THEN UpperLetters[CHOOSE k \in 1..Len(LowerLetters) : LowerLetters[k] = s[i]]
        ELSE s[i]]

\* sub in s
Contains(s, sub) == \E i \in 1..(Len(s) - Len(sub) + 1) : SubSeq(s, i, i + Len(sub) - 1) = sub

\* EventParser._extract_entity_id
event_extract_entity_id(wikilink, w) ==
    IF wikilink = Sentinel THEN [value |-> Sentinel, w |-> w]
    ELSE IF clean_id(wikilink, w, 0).value # ValueError THEN clean_id(wikilink, w, 0)
    ELSE [value |-> IF Contains(Upper(wikilink), SubSeq(Sentinel, 1, 7))
                    THEN Sentinel ELSE None,
          w |-> clean_id(wikilink, w, 0).w]

\* MicroActionParser._extract_entity_id
micro_extract_entity_id(wikilink, w) ==
    IF ~StartsWith(wikilink, <<"[", "[">>)
    THEN [value |-> wikilink,
          w |-> [w EXCEPT !.invalid_wikilinks = Append(@, <<0, wikilink>>)]]
    ELSE IF clean_id(wikilink, w, 0).value # ValueError THEN clean_id(wikilink, w, 0)
    ELSE [value |-> None, w |-> clean_id(wikilink, w, 0).w]

FieldValues ==
    {r \in RawLinks : ~HasChar(r, NL)}
        \cup {Sentinel, <<"[", "[">> \o Sentinel \o <<"]", "]">>,
              <<"u", "n", "k", "n", "o", "w", "n">>,
              <<"J", "e", "a", "n", " ", "D", "u", "p", "o", "n", "t">>}

InitField ==
    /\ DateIdle
    /\ ProjIdle
    /\ npc = "field"
    /\ vault = <<>>
    /\ pos = 0
    /\ doc_id_index = <<>>
    /\ doc_list = <<>>
    /\ warnings = NoLinkWarnings
    /\ note \in FieldValues
    /\ record = <<>>

\* event_parser.py lines 111-115: the field of an event block
ParseEventField ==
    /\ npc = "field"
    /\ npc' = "event_field"
    /\ record' = event_extract_entity_id(note, warnings).value
    /\ warnings' = event_extract_entity_id(note, warnings).w
    /\ UNCHANGED <<vault, pos, doc_id_index, doc_list, note, dateVars, projVars>>

\* microaction_parser.py lines 104-108: the field of a micro-action block
ParseMicroField ==
    /\ npc = "field"
    /\ npc' = "micro_field"
    /\ record' = micro_extract_entity_id(note, warnings).value
    /\ warnings' = micro_extract_entity_id(note, warnings).w
    /\ UNCHANGED <<vault, pos, doc_id_index, doc_list, note, dateVars, projVars>>

NextField == ParseEventField \/ ParseMicroField

SpecField == InitField /\ [][NextField]_vars

(***************************************************************************)
(* WikilinkExtractor.extract_from_dict on a front matter: a mapping is a   *)
(* sequence of entries [key, val] in insertion order, a value is a string, *)
(* a mapping, a list or another scalar.                                    *)
(***************************************************************************)
FRONTMATTER_BLACKLIST ==
    {<<"q", "u", "o", "t", "e">>, <<"s", "o", "u", "r", "c", "e", "_", "q", "u", "o", "t", "e">>,
     <<"n", "o", "t", "e">>, <<"d", "o", "c">>, <<"p", "a", "g", "e">>}

StrVal(text) == [kind |-> "str", text |-> text, items |-> <<>>]

DictVal(entries) == [kind |-> "dict", text |-> <<>>, items |-> entries]

ListVal(items) == [kind |-> "list", text |-> <<>>, items |-> items]

IntVal == [kind |-> "int", text |-> <<>>, items |-> <<>>]

Entry(k, v) == [key |-> k, val |-> v]

\* lines 133-138: the value under parent_key is not scanned
Blacklisted(parent_key, blacklist_fields) ==
    /\ parent_key # <<>>
    /\ \/ parent_key \in blacklist_fields
       \/ /\ HasChar(parent_key, ".")
          /\ \E bl \in blacklist_fields : Contains(parent_key, bl)

\* line 146: new_key
NewKey(parent_key, k) == IF parent_key # <<>> THEN parent_key \o <<".">> \o k ELSE k

Scanned(acc, found) == [ids |-> acc.ids \cup found.ids, w |-> found.w]

RECURSIVE scan_value(_, _, _, _)
RECURSIVE scan_items(_, _, _, _, _)
\* scan_value, acc being the ids and the warnings collected so far
scan_value(val, parent_key, blacklist_fields, acc) ==
    IF Blacklisted(parent_key, blacklist_fields) THEN acc
    ELSE CASE val.kind = "str" -> Scanned(acc, extract_all_wikilinks(val.text, acc.w))
           [] val.kind \in {"dict", "list"} ->
                 scan_items(val, 1, parent_key, blacklist_fields, acc)
           [] OTHER -> acc

\* lines 145-150: the loops over the items of a mapping or of a list
scan_items(val, i, parent_key, blacklist_fields, acc) ==
    IF i > Len(val.items) THEN acc
    ELSE scan_items(val, i + 1, parent_key, blacklist_fields,
             IF val.kind = "dict"
             THEN scan_value(val.items[i].val, NewKey(parent_key, val.items[i].key),
                             blacklist_fields, acc)
             ELSE scan_value(val.items[i], parent_key, blacklist_fields, acc))

extract_from_dict(data, blacklist_fields, w) ==
    scan_value(data, <<>>, blacklist_fields, [ids |-> {}, w |-> w])

LinkTo(c) == <<"t", "o", " ", "[", "[", "/", "i", "d", "/", "p", "e", "r", "s", "o", "n", "/">> \o Uuid(c) \o <<"]", "]">>

LeafValues == {StrVal(LinkTo("1")), StrVal(LinkTo("F")), StrVal(<<"n", "o", " ", "l", "i", "n", "k">>), IntVal}

TopKeys == {<<"g", "p", "e">>, <<"n", "o", "t", "e">>, <<"d", "o", "c", "u", "m", "e", "n", "t", "s">>}

NestedKeys == {<<"n", "a", "m", "e">>, <<"d", "o", "c">>, <<"n", "o", "t", "e", "s">>}

FieldVals ==
    LeafValues
        \cup {ListVal(<<l>>) : l \in LeafValues}
        \cup {DictVal(<<Entry(k, l)>>) : k \in NestedKeys, l \in LeafValues}
        \cup {ListVal(<<DictVal(<<Entry(k, StrVal(LinkTo("1")))>>)>>) : k \in NestedKeys}
        \cup {DictVal(<<Entry(k, DictVal(<<Entry(j, StrVal(LinkTo("F")))>>))>>) :
                 k \in NestedKeys, j \in NestedKeys}

Frontmatters ==
    {DictVal(<<Entry(k, v)>>) : k \in TopKeys, v \in FieldVals}
        \cup {DictVal(<<Entry(kj[1], v), Entry(kj[2], u)>>) :
                 kj \in {p \in TopKeys \X TopKeys : p[1] # p[2]},
                 v \in FieldVals, u \in LeafValues}

InitMapping ==
    /\ DateIdle
    /\ ProjIdle
    /\ npc = "mapping"
    /\ vault = <<>>
    /\ pos = 0
    /\ doc_id_index = <<>>
    /\ doc_list = <<>>
    /\ warnings = NoLinkWarnings
    /\ note \in Frontmatters
    /\ record = {}

\* extract_from_dict(frontmatter, FRONTMATTER_BLACKLIST, warnings, file_path)
ExtractFromDict ==
    /\ npc = "mapping"
    /\ npc' = "scanned"
    /\ record' = extract_from_dict(note, FRONTMATTER_BLACKLIST, warnings).ids
    /\ warnings' = extract_from_dict(note, FRONTMATTER_BLACKLIST, warnings).w
    /\ UNCHANGED <<vault, pos, doc_id_index, doc_list, note, dateVars, projVars>>

SpecMapping == InitMapping /\ [][ExtractFromDict]_vars

(***************************************************************************)
(* DocumentParser._extract_narrative_text on the body of a document.       *)
(***************************************************************************)
MinNarrative == 50

Divider == <<NL, "-", "-", "-", NL>>

RECURSIVE SplitOn(_, _)
\* s.split(sep) for a separator of several characters
SplitOn(s, sep) ==
    IF ~Contains(s, sep) THEN <<s>>
    ELSE LET i == CHOOSE k \in 1..(Len(s) - Len(sep) + 1) :
                      /\ SubSeq(s, k, k + Len(sep) - 1) = sep
                      /\ \A j \in 1..(k - 1) : SubSeq(s, j, j + Len(sep) - 1) # sep
         IN  <<SubSeq(s, 1, i - 1)>> \o SplitOn(SubSeq(s, i + Len(sep), Len(s)), sep)

RECURSIVE JoinWith(_, _)
\* sep.join(parts)
JoinWith(parts, sep) ==
    IF parts = <<>> THEN <<>>
    ELSE IF Len(parts) = 1 THEN parts[1]
    ELSE parts[1] \o sep \o JoinWith(Tail(parts), sep)

\* line.strip()
StripWs(s) == LStrip(RStrip(s, {" ", "\t", NL}), {" ", "\t", NL})

MetadataPrefixes ==
    {<<"S", "e", "n", "d", "e", "r", ":">>, <<"R", "e", "c", "i", "p", "i", "e", "n", "t", ":">>,
     <<"P", "l", "a", "c", "e", ":">>, <<"D", "a", "t", "e", ":">>,
     <<"C", "o", "n", "c", "e", "r", "n", "s", ":">>}

\* the first index after from where s holds c, 0 when there is none
NextChar(s, c, from) ==
    IF \E k \in from..Len(s) : s[k] = c
    THEN CHOOSE k \in from..Len(s) : s[k] = c /\ \A j \in from..(k - 1) : s[j] # c
    ELSE 0

\* the index where the match of mark mark [^mark]{least,} mark mark that
\* starts at i ends, 0 when none starts there
MarkedEnd(s, mark, least, i) ==
    IF /\ i + 1 <= Len(s) /\ s[i] = mark /\ s[i + 1] = mark
       /\ NextChar(s, mark, i + 2) >= i + 2 + least
       /\ NextChar(s, mark, i + 2) + 1 <= Len(s)
       /\ s[NextChar(s, mark, i + 2) + 1] = mark
    THEN NextChar(s, mark, i + 2) + 1
    ELSE 0

RECURSIVE SubMarked(_, _, _, _)
\* re.sub of the marked spans of s, their content kept or not
SubMarked(s, mark, least, keep) ==
    IF \A i \in 1..Len(s) : MarkedEnd(s, mark, least, i) = 0 THEN s
    ELSE LET i == CHOOSE k \in 1..Len(s) :
                      /\ MarkedEnd(s, mark, least, k) # 0
                      /\ \A j \in 1..(k - 1) : MarkedEnd(s, mark, least, j) = 0
             e == MarkedEnd(s, mark, least, i)
         IN  SubSeq(s, 1, i - 1) \o (IF keep THEN SubSeq(s, i + 2, e - 2) ELSE <<>>)
                 \o SubMarked(SubSeq(s, e + 1, Len(s)), mark, least, keep)

\* lines 181-184: comments removed, highlights replaced by their content
CleanLine(line) == SubMarked(SubMarked(line, "%", 0, FALSE), "=", 1, TRUE)

RECURSIVE CleanedLines(_, _, _)
\* lines 165-187: the loop over the lines from the i-th on
CleanedLines(lines, i, skip_metadata) ==
    IF i > Len(lines) THEN <<>>
    ELSE IF /\ skip_metadata
            /\ \/ \E p \in MetadataPrefixes : StartsWith(StripWs(lines[i]), p)
               \/ StripWs(lines[i]) = <<>>
         THEN CleanedLines(lines, i + 1, TRUE)
    ELSE (IF StripWs(CleanLine(lines[i])) # <<>> THEN <<CleanLine(lines[i])>> ELSE <<>>)
             \o CleanedLines(lines, i + 1, FALSE)

\* lines 160-195: the narrative text of narrative_part, the body when it is
\* too short
narrative_of(narrative_part, body) ==
    IF Len(StripWs(JoinWith(CleanedLines(Split(narrative_part, NL), 1, TRUE), <<NL>>)))
           < MinNarrative
    THEN body
    ELSE JoinWith(CleanedLines(Split(narrative_part, NL), 1, TRUE), <<NL>>)

extract_narrative_text(body) ==
    narrative_of(IF Len(SplitOn(body, Divider)) > 1 THEN SplitOn(body, Divider)[1] ELSE body,
                 body)

MaxLines == 5

BodyLines ==
    {Rep("a", MinNarrative), <<"S", "e", "n", "d", "e", "r", ":", " ", "x">>, <<"-", "-", "-">>,
     <<"=", "=", "h", "i", "=", "=", " ", "%", "%", "c", "%", "%", " ">> \o Rep("b", MinNarrative), <<>>}

Bodies ==
    {JoinWith(ls, <<NL>>) : ls \in UNION {[1..n -> BodyLines] : n \in 1..MaxLines}}

InitNarrative ==
    /\ DateIdle
    /\ ProjIdle
    /\ npc = "body"
    /\ vault = <<>>
    /\ pos = 0
    /\ doc_id_index = <<>>
    /\ doc_list = <<>>
    /\ warnings = NoLinkWarnings
    /\ note \in Bodies
    /\ record = <<>>

\* _extract_narrative_text(body)
ExtractNarrativeText ==
    /\ npc = "body"
    /\ npc' = "narrated"
    /\ record' = extract_narrative_text(note)
    /\ UNCHANGED <<vault, pos, doc_id_index, doc_list, warnings, note, dateVars, projVars>>

SpecNarrative == InitNarrative /\ [][ExtractNarrativeText]_vars

(***************************************************************************)
(* EntityParser._parse_entity_file (utils/entity_parser.py) on a note of   *)
(* the id/person folder.  The note is its front matter fields id, gpe,     *)
(* is_part_of and the organization of each occupation, its body, and the   *)
(* organization parse_structures_from_markdown found in the body.          *)
(***************************************************************************)
\* a YAML scalar that is not a string (an integer such as 42): clean_id
\* calls raw_link.strip on it, which raises AttributeError
NonString == <<"int">>

JoinWarnings(a, b) ==
    [auto_corrected_slashes |-> a.auto_corrected_slashes \o b.auto_corrected_slashes,
     invalid_wikilinks |-> a.invalid_wikilinks \o b.invalid_wikilinks]

\* the ids clean_id returns for the raw links of a list, those that raise
\* ValueError left out (lines 92-97, 108-114, _parse_occupations)
CleanEach(raws) ==
    {clean_id(raws[i], NoLinkWarnings, 0).value : i \in 1..Len(raws)} \ {ValueError}

RECURSIVE CleanLogs(_)
CleanLogs(raws) ==
    IF raws = <<>> \/ Head(raws) = NonString THEN NoLinkWarnings
    ELSE JoinWarnings(clean_id(Head(raws), NoLinkWarnings, 0).w, CleanLogs(Tail(raws)))

\* extract_from_dict on the string values of the front matter
ExtractEach(values) ==
    UNION {extract_all_wikilinks(values[i], NoLinkWarnings).ids : i \in 1..Len(values)}

RECURSIVE ExtractLogs(_)
ExtractLogs(values) ==
    IF values = <<>> THEN NoLinkWarnings
    ELSE JoinWarnings(extract_all_wikilinks(Head(values), NoLinkWarnings).w,
                      ExtractLogs(Tail(values)))

\* a front matter field as a list of raw links: empty when absent or falsy
AsList(v) == IF v = None \/ v = <<>> THEN <<>> ELSE <<v>>

\* the string leaves of the front matter
FrontmatterValues(n) ==
    SelectSeq(AsList(n.id) \o AsList(n.gpe) \o n.is_part_of \o n.occupations,
              LAMBDA v : v # NonString)

\* the values clean_id is called on for the specific relations, in order
RelationValues(n) == AsList(n.gpe) \o n.is_part_of \o n.occupations

\* lines 87-192: the targets of the specific relations
SpecificRelations(n) ==
    [LOCATED_IN |-> CleanEach(AsList(n.gpe)),
     IS_PART_OF |-> CleanEach(n.is_part_of),
     WORKED_FOR |-> CleanEach(n.occupations)
                        \cup (IF n.md_organization = None THEN {} ELSE {n.md_organization})]

\* lines 78-85
AllLinks(n) == extract_all_wikilinks(n.body, NoLinkWarnings).ids \cup ExtractEach(FrontmatterValues(n))

SpecificLinks(n) ==
    SpecificRelations(n).LOCATED_IN \cup SpecificRelations(n).IS_PART_OF
        \cup SpecificRelations(n).WORKED_FOR

EntityWarnings(n) ==
    JoinWarnings(clean_id(n.id, NoLinkWarnings, 0).w,
    JoinWarnings(extract_all_wikilinks(n.body, NoLinkWarnings).w,
    JoinWarnings(ExtractLogs(FrontmatterValues(n)),
                 CleanLogs(RelationValues(n)))))

NoRelations == [LOCATED_IN |-> {}, IS_PART_OF |-> {}, WORKED_FOR |-> {}]

\* _parse_names: one structure item for each item of the front-matter field
\* names, its rid None when the item has none
parse_names(names_data) ==
    [i \in 1..Len(names_data) |->
        [rid |-> names_data[i].rid, display |-> names_data[i].display]]

\* _parse_items_level3: the items of a markdown section that have a rid
parse_items_level3(section_items) == SelectSeq(section_items, LAMBDA item : item.rid # None)

\* lines 122-163: the structures of the front matter, those of the markdown
\* sections appended to them
Structures(n) == [names |-> parse_names(n.names) \o parse_items_level3(n.md_names)]

\* what _parse_entity_file gives without a record: None returned or
\* ValueError raised
NoRecord(outcome) ==
    [outcome |-> outcome, label |-> "Entity", id |-> None,
     specific_relations |-> NoRelations, structures |-> [names |-> <<>>],
     generic_references |-> {}]

\* _parse_entity_file: None for a note without id, ValueError when the id
\* is not one, AttributeError when a relation value is not a string (the
\* except clauses of lines 94 and 111 and of _parse_occupations name
\* ValueError and TypeError only), the entity record otherwise
parse_entity_file(n) ==
    IF n.id = None THEN NoRecord("None")
    ELSE IF clean_id(n.id, NoLinkWarnings, 0).value = ValueError THEN NoRecord("ValueError")
    ELSE IF \E i \in 1..Len(RelationValues(n)) : RelationValues(n)[i] = NonString
         THEN NoRecord("AttributeError")
    ELSE [outcome |-> "entity",
          label |-> "Person",
          id |-> clean_id(n.id, NoLinkWarnings, 0).value,
          specific_relations |-> SpecificRelations(n),
          structures |-> Structures(n),
          generic_references |->
              categorize_links(AllLinks(n), SpecificLinks(n),
                               clean_id(n.id, NoLinkWarnings, 0).value)]

Chars_id(kind, c) ==
    <<"/", "i", "d", "/">> \o kind \o <<"/">> \o Uuid(c)

Linked(id) == <<"[", "[">> \o id \o <<"]", "]">>

OwnId == Chars_id(<<"p", "e", "r", "s", "o", "n">>, "1")

GpeId == Chars_id(<<"g", "p", "e">>, "2")

OrgId == Chars_id(<<"o", "r", "g">>, "a")

OtherId == Chars_id(<<"p", "e", "r", "s", "o", "n">>, "F")

\* a slug as _extract_wikilink_id accepts it
OrgSlug == <<"/", "i", "d", "/", "o", "r", "g", "/", "c", "i", "c", "r">>

BodyLinks ==
    <<Linked(OwnId), Linked(GpeId), Linked(Tail(OrgId) \o <<"|", "O", "r", "g">>),
      Linked(OtherId)>>

RECURSIVE BodyText(_, _)
\* a body that mentions the links of the positions chosen, one a line
BodyText(chosen, k) ==
    IF k > Len(BodyLinks) THEN <<>>
    ELSE (IF k \in chosen THEN <<"s", "e", "e", " ">> \o BodyLinks[k] \o <<NL>> ELSE <<>>)
             \o BodyText(chosen, k + 1)

EntityNotes ==
    [id : {None, OwnId, Linked(OwnId),
           <<"/", "i", "d", "/", "p", "e", "r", "s", "o", "n", "/", "x">>},
     gpe : {None, Linked(GpeId), Linked(Tail(GpeId) \o <<"|", "G", "e">>),
            Linked(<<"/", "i", "d", "/", "g", "p", "e", "/", "x">>), NonString},
     is_part_of : {<<>>, <<Linked(OrgId)>>, <<NonString>>},
     occupations : {<<>>, <<Linked(OrgId)>>, <<NonString>>},
     md_organization : {None, OrgId, OrgSlug},
     names : {<<>>},
     md_names : {<<>>},
     body : {BodyText(chosen, 1) : chosen \in SUBSET (1..Len(BodyLinks))}]

InitEntityNote ==
    /\ DateIdle
    /\ ProjIdle
    /\ npc = "entity"
    /\ vault = <<>>
    /\ pos = 0
    /\ doc_id_index = <<>>
    /\ doc_list = <<>>
    /\ warnings = NoLinkWarnings
    /\ note \in EntityNotes
    /\ record = <<>>

\* _parse_entity_file(file_path, warnings)
ParseEntityFile ==
    /\ npc = "entity"
    /\ npc' = "parsed"
    /\ record' = parse_entity_file(note)
    /\ warnings' = IF note.id = None THEN warnings ELSE EntityWarnings(note)
    /\ UNCHANGED <<vault, pos, doc_id_index, doc_list, note, dateVars, projVars>>

SpecEntityNote == InitEntityNote /\ [][ParseEntityFile]_vars

(***************************************************************************)
(* _parse_entity_file on person notes that hold names in the front-matter  *)
(* field names and in the markdown section Appellations.                   *)
(***************************************************************************)
Rid(k) == <<"N", k>>

NameItem(rid, display) == [rid |-> rid, display |-> display]

FrontmatterNames ==
    {<<>>, <<NameItem(Rid("1"), "Jean")>>, <<NameItem(None, "Jean")>>,
     <<NameItem(Rid("1"), "Jean"), NameItem(Rid("2"), "Johann")>>}

MarkdownNames ==
    {<<>>, <<NameItem(Rid("1"), "Jean")>>, <<NameItem(Rid("3"), "Hans")>>,
     <<NameItem(None, "Hans")>>,
     <<NameItem(Rid("3"), "Hans"), NameItem(None, "Giovanni")>>,
     <<NameItem(Rid("2"), "Johann"), NameItem(Rid("3"), "Hans")>>}

StructureNotes ==
    [id : {OwnId, Linked(OwnId)},
     gpe : {None, Linked(GpeId)},
     is_part_of : {<<>>},
     occupations : {<<>>, <<Linked(OrgId)>>},
     md_organization : {None},
     names : FrontmatterNames,
     md_names : MarkdownNames,
     body : {<<>>, BodyText({4}, 1)}]

InitStructures ==
    /\ DateIdle
    /\ ProjIdle
    /\ npc = "entity"
    /\ vault = <<>>
    /\ pos = 0
    /\ doc_id_index = <<>>
    /\ doc_list = <<>>
    /\ warnings = NoLinkWarnings
    /\ note \in StructureNotes
    /\ record = <<>>

SpecStructures == InitStructures /\ [][ParseEntityFile]_vars

(***************************************************************************)
(* Date expressions the normalizers are exercised on                       *)
(***************************************************************************)
Years == {1900, 1943, 1944, 2000}

Months == {0, 1, 2, 4, 12, 13}

FullDateMonths == {2, 13}

FullDateDays == {1, 30}

Tokens ==
    {[k |-> "Y", y |-> y, m |-> 1, d |-> 1] : y \in Years}
    \cup {[k |-> "YM", y |-> y, m |-> m, d |-> 1] : y \in Years, m \in Months}
    \cup {[k |-> "YMD", y |-> y, m |-> m, d |-> d] :
              y \in Years, m \in FullDateMonths, d \in FullDateDays}

RenderTok(t) ==
    IF t.k = "Y" THEN D4(t.y)
    ELSE IF t.k = "YM" THEN D4(t.y) \o <<"-">> \o D2(t.m)
    ELSE D4(t.y) \o <<"-">> \o D2(t.m) \o <<"-">> \o D2(t.d)

IntervalLeft ==
    {[k |-> "Y", y |-> 1900, m |-> 1, d |-> 1],
     [k |-> "YM", y |-> 1943, m |-> 2, d |-> 1],
     [k |-> "YMD", y |-> 1943, m |-> 2, d |-> 1]}

RawInputs ==
    {None, <<>>, <<".", ".">>, <<".", ".", "/", ".", ".">>,
     <<" ", "1", "9", "4", "4", "-", "0", "2", " ">>,
     <<"1", "9", "4", "4", "-", "2">>, <<"~">>,
     <<"1", "9", "4", "4", "~", "/", "1", "9", "4", "5", "~">>}

Render(in) ==
    CASE in.shape = "single"    -> RenderTok(in.a)
      [] in.shape = "circa"     -> RenderTok(in.a) \o <<"~">>
      [] in.shape = "uncertain" -> RenderTok(in.a) \o <<"?">>
      [] in.shape = "before"    -> <<".", ".", "/">> \o RenderTok(in.a)
      [] in.shape = "after"     -> RenderTok(in.a) \o <<"/", ".", ".">>
      [] in.shape = "interval"  -> RenderTok(in.a) \o <<"/">> \o RenderTok(in.b)
      [] OTHER                  -> in.raw

DateInputs ==
    {[shape |-> sh, a |-> t, b |-> NoTok, raw |-> <<>>] :
        sh \in {"single", "circa", "uncertain", "before", "after"}, t \in Tokens}
    \cup {[shape |-> "interval", a |-> t, b |-> u, raw |-> <<>>] :
              t \in IntervalLeft, u \in Tokens}
    \cup {[shape |-> "raw", a |-> NoTok, b |-> NoTok, raw |-> r] : r \in RawInputs}

(***************************************************************************)
(* The date specification: a note extractor parses the expression with     *)
(* EDTFParser.parse, the projector derives the stored fields from the same *)
(* expression with parse_edtf_date.                                        *)
(***************************************************************************)
InitDate ==
    /\ ProjIdle
    /\ NoteIdle
    /\ dpc = "input"
    /\ dateIn \in DateInputs
    /\ edtf_string = Render(dateIn)
    /\ parsed = NoResult
    /\ derived = NoResult

Parse ==
    /\ dpc = "input"
    /\ parsed' = EDTFParse(edtf_string)
    /\ dpc' = "parsed"
    /\ UNCHANGED <<dateIn, edtf_string, derived, projVars, noteVars>>

Derive ==
    /\ dpc = "parsed"
    /\ derived' = parse_edtf_date(edtf_string)
    /\ dpc' = "derived"
    /\ UNCHANGED <<dateIn, edtf_string, parsed, projVars, noteVars>>

NextDate == Parse \/ Derive

SpecDate == InitDate /\ [][NextDate]_vars

(***************************************************************************)
(* The specification's normalize(token, isStart), written from its text:   *)
(* a bare year maps to Jan 1 / Dec 31, a year-month to day 1 / the last    *)
(* calendar day of the month (Gregorian leap years), a full date to itself.*)
(***************************************************************************)
CommonYearDays == <<31, 28, 31, 30, 31, 30, 31, 31, 30, 31, 30, 31>>

GregorianLeap(y) == (y % 400 = 0) \/ (y % 4 = 0 /\ y % 100 # 0)

LastCalendarDay(y, m) == IF m = 2 /\ GregorianLeap(y) THEN 29 ELSE CommonYearDays[m]

IsCalendarToken(t) == t.k = "YM" => t.m \in 1..12

ExpectedBound(t, isStart) ==
    IF t.k = "Y"
    THEN D4(t.y) \o (IF isStart THEN <<"-", "0", "1", "-", "0", "1">>
                                ELSE <<"-", "1", "2", "-", "3", "1">>)
    ELSE IF t.k = "YM"
    THEN D4(t.y) \o <<"-">> \o D2(t.m) \o <<"-">>
             \o (IF isStart THEN <<"0", "1">> ELSE D2(LastCalendarDay(t.y, t.m)))
    ELSE RenderTok(t)

TokenPrecision(t) == IF t.k = "Y" THEN "year" ELSE IF t.k = "YM" THEN "month" ELSE "day"

DateParsed == dpc \in {"parsed", "derived"}

(***************************************************************************)
(* C8: in an interval expression each bound is normalized by its role:     *)
(* "../X" yields (None, normalize(X, end), "before"), "X/.." yields        *)
(* (normalize(X, start), None, "after") and "A/B" yields                   *)
(* (normalize(A, start), normalize(B, end), "interval"), for bare years,   *)
(* year-months and full dates.                                             *)
(***************************************************************************)
C8_IntervalBoundsByRole ==
    (DateParsed /\ IsCalendarToken(dateIn.a) /\ IsCalendarToken(dateIn.b)) =>
        /\ dateIn.shape = "before" =>
               parsed = [date_start |-> None,
                         date_end |-> ExpectedBound(dateIn.a, FALSE),
                         date_precision |-> "before"]
        /\ dateIn.shape = "after" =>
               parsed = [date_start |-> ExpectedBound(dateIn.a, TRUE),
                         date_end |-> None,
                         date_precision |-> "after"]
        /\ dateIn.shape = "interval" =>
               parsed = [date_start |-> ExpectedBound(dateIn.a, TRUE),
                         date_end |-> ExpectedBound(dateIn.b, FALSE),
                         date_precision |-> "interval"]

(***************************************************************************)
(* C9: for a single date token, optionally followed by ~ or ?, the         *)
(* normalizer returns the first and the last day of the denoted period     *)
(* (year: Jan 1 .. Dec 31; calendar year-month: day 01 .. last day of the  *)
(* month with the Gregorian leap rule; full date: itself twice), with      *)
(* precision year/month/day when unmarked, circa for ~, uncertain for ?.   *)
(***************************************************************************)
C9_SingleTokenPeriod ==
    (DateParsed /\ dateIn.shape \in {"single", "circa", "uncertain"}
                /\ IsCalendarToken(dateIn.a)) =>
        parsed = [date_start |-> ExpectedBound(dateIn.a, TRUE),
                  date_end |-> ExpectedBound(dateIn.a, FALSE),
                  date_precision |->
                      IF dateIn.shape = "circa" THEN "circa"
                      ELSE IF dateIn.shape = "uncertain" THEN "uncertain"
                      ELSE TokenPrecision(dateIn.a)]

C9_Witness ==
    /\ dpc = "parsed"
    /\ dateIn.shape = "circa"
    /\ dateIn.a = [k |-> "YM", y |-> 1944, m |-> 2, d |-> 1]
    /\ parsed.date_end = <<"1", "9", "4", "4", "-", "0", "2", "-", "2", "9">>
    /\ parsed.date_precision = "circa"

(***************************************************************************)
(* Properties of the import run                                            *)
(***************************************************************************)
RanClean == \A k \in 1..Len(writes) : writes[k].ok

BatchesCommitted == pc \in {"replies", "validation"}

\* C1: committing the same four batches a second time against the graph the
\* first commit left adds no node and no edge: the graph after two commits
\* equals the graph after one.
C1_RecommitAddsNothing ==
    (commits >= 2 /\ BatchesCommitted /\ RanClean)
        => (graph.nodes = committed.nodes /\ graph.edges = committed.edges)

StructNodes == {x \in graph.nodes : x.label \in StructLabels}

\* C2: after any sequence of entity commits there is at most one structure
\* node per (structure kind, rid), attached to its parent by exactly one
\* ownership edge.
C2_OneStructureNodePerRid ==
    /\ \A x \in StructNodes : \A y \in StructNodes :
          (x.label = y.label /\ x.key = y.key) => x = y
    /\ \A x \in StructNodes :
          Cardinality({e \in graph.edges : e.dst = x /\ e.type \in OwnershipEdges}) = 1

EntityBatchCommitted ==
    pc \in {"documents", "events", "microactions", "replies", "chain", "context",
            "timeline", "validation", "success"}

InBatch(label, id) ==
    \E k \in 1..Len(batch.entities) :
        /\ batch.entities[k].id = id
        /\ label = AnyLabel \/ batch.entities[k].label = label

HasEdge(type, src_id, dst_id) ==
    \E e \in graph.edges : e.type = type /\ e.src.key = src_id /\ e.dst.key = dst_id

\* C3: once the entity batch is committed, every specific relation and
\* every generic reference whose target is in the batch with the label the
\* edge requires has its edge, wherever source and target stand in the
\* batch.
C3_ForwardReferencesLinked ==
    (EntityBatchCommitted /\ commits = 1 /\ RanClean) =>
        \A k \in 1..Len(batch.entities) :
            LET entity == batch.entities[k]
            IN  /\ \A j \in 1..Len(entity.specific_relations) :
                      LET rel == entity.specific_relations[j]
                      IN  (/\ rel[1] \in SpecificRelTypes
                           /\ SourceLabel(rel[1]) \in {AnyLabel, entity.label}
                           /\ InBatch(TargetLabel(rel[1]), rel[2]))
                              => HasEdge(rel[1], entity.id, rel[2])
                /\ \A ref_id \in entity.generic_references :
                      InBatch(AnyLabel, ref_id) => HasEdge("REFERENCES", entity.id, ref_id)

PhaseRank(phase) ==
    CASE phase = "clear" -> 0
      [] phase = "constraints" -> 1
      [] phase = "entities" -> 2
      [] phase = "documents" -> 3
      [] phase = "events" -> 4
      [] phase = "microactions" -> 5
      [] phase = "inference" -> 6
      [] OTHER -> 7

LabelRank(label) ==
    CASE label = "GPE" -> 1 [] label = "Organization" -> 2 [] label = "Person" -> 3
      [] OTHER -> 4

Issued == {k \in 1..Len(writes) : writes[k].ok}

\* the record writes of a phase issued before the k-th write
RecordsBefore(k, phase) ==
    Cardinality({j \in Issued : /\ j < k
                                /\ writes[j].phase = phase
                                /\ writes[j].label \notin {"structures", "CONCERNS",
                                                           "REFERENCES"}})

\* C4: the writes of a run follow the phase order entities, documents,
\* events, micro-actions; no inference rule writes before every record of
\* the four batches has been written; and among the entity writes every
\* GPE node comes before every Organization node and every Organization
\* node before every Person node.
C4_StrictCommitOrder ==
    /\ \A i \in Issued : \A j \in Issued :
          i < j => PhaseRank(writes[i].phase) <= PhaseRank(writes[j].phase)
    /\ \A i \in Issued : \A j \in Issued :
          (i < j /\ writes[i].label \in EntityLabels /\ writes[j].label \in EntityLabels)
              => LabelRank(writes[i].label) <= LabelRank(writes[j].label)
    /\ \A k \in Issued :
          writes[k].phase = "inference" =>
              /\ RecordsBefore(k, "entities") = Len(batch.entities)
              /\ RecordsBefore(k, "documents") = Len(batch.documents)
              /\ RecordsBefore(k, "events") = Len(batch.events)
              /\ RecordsBefore(k, "microactions") = Len(batch.microactions)

\* a finished run whose batch was not in label order and whose log holds
\* every phase and every label
C4_Witness ==
    /\ pc = "success"
    /\ Len(batch.entities) = 3
    /\ batch.entities[1].label = "Person"
    /\ batch.entities[3].label = "GPE"
    /\ \A l \in EntityLabels : \E k \in Issued : writes[k].label = l
    /\ \A ph \in {"documents", "events", "microactions", "inference"} :
          \E k \in Issued : writes[k].phase = ph

\* C5: a backend call that fails with a connectivity error aborts the run:
\* no later backend write is issued and the run does not reach success.
C5_FailureAborts ==
    /\ \A k \in 1..Len(writes) : ~writes[k].ok => k = Len(writes)
    /\ pc = "success" => RanClean

NamedNowhere(id) ==
    /\ ~InBatch(AnyLabel, id)
    /\ \A k \in 1..Len(batch.documents) : batch.documents[k].id # id

\* C6: an edge whose target node is absent is not created, no placeholder
\* node is created for the target, the miss is recorded, and the run goes
\* on: a missing target never aborts it.
C6_MissingTargetIsSoftFailure ==
    /\ \A t \in missed :
          NamedNowhere(t[3]) =>
              /\ ~\E x \in graph.nodes : x.key = t[3]
              /\ ~\E e \in graph.edges : e.dst.key = t[3]
    /\ \A t \in missed : t \in missLog
    /\ pc = "aborted" => ~RanClean

\* C7: every Event and MicroAction node with a raw date expression stores
\* exactly the triple EDTFParser.parse returns for that expression.
C7_StoredDatesMatchNormalizer ==
    \A x \in DOMAIN graph.props :
        graph.props[x].date_edtf # None =>
            /\ graph.props[x].date_start = EDTFParse(graph.props[x].date_edtf).date_start
            /\ graph.props[x].date_end = EDTFParse(graph.props[x].date_edtf).date_end
            /\ graph.props[x].date_precision
                   = EDTFParse(graph.props[x].date_edtf).date_precision

(***************************************************************************)
(* Properties of the reply rule                                            *)
(***************************************************************************)
Flagged(m) ==
    /\ graph.props[m].link_type \in {"replies_to", "acknowledges_receipt"}
    /\ graph.props[m].actor_id # NoId
    /\ graph.props[m].recipient_id # NoId
    /\ graph.props[m].date_start # None

StartDay(m) == CypherDate(graph.props[m].date_start)

\* the micro-actions with swapped actor and recipient dated strictly before m
EarlierSwapped(m) ==
    {o \in MicroActions(graph) :
        /\ graph.props[o].actor_id = graph.props[m].recipient_id
        /\ graph.props[o].recipient_id = graph.props[m].actor_id
        /\ graph.props[o].date_start # None
        /\ StartDay(o) < StartDay(m)}

RepliesOf(m) == {e \in graph.edges : e.type = "REPLIES_TO" /\ e.src = m}

RepliesRuns == Cardinality({k \in 1..Len(writes) : writes[k].label = "REPLIES_TO"})

\* C10: once the reply rule has run, every flagged micro-action with a known
\* actor, recipient and start date is linked to a micro-action with swapped
\* actor and recipient whose start date is the latest of those strictly
\* before its own; without such a candidate it has no edge; and however
\* often the rule runs it has at most one outgoing REPLIES_TO edge.
C10_ReplyPicksLatestEarlier ==
    pc = "inference" =>
        \A m \in MicroActions(graph) :
            /\ Cardinality(RepliesOf(m)) <= 1
            /\ \A e \in RepliesOf(m) :
                  /\ Flagged(m)
                  /\ e.dst \in EarlierSwapped(m)
                  /\ \A o \in EarlierSwapped(m) : StartDay(o) <= StartDay(e.dst)
            /\ (~Flagged(m) \/ EarlierSwapped(m) = {}) => RepliesOf(m) = {}
            /\ (RepliesRuns > 0 /\ Flagged(m) /\ EarlierSwapped(m) # {}) => RepliesOf(m) # {}

\* the rule has run twice and a reply with an earlier and a later candidate
\* is linked to the later one, while another flagged one has no candidate
C10_Witness ==
    /\ pc = "inference"
    /\ RepliesRuns >= 2
    /\ \E m \in MicroActions(graph) : \E e \in RepliesOf(m) :
          \E o \in EarlierSwapped(m) : StartDay(o) < StartDay(e.dst)
    /\ \E m \in MicroActions(graph) : Flagged(m) /\ EarlierSwapped(m) = {}

(***************************************************************************)
(* Properties of the chain rule                                            *)
(***************************************************************************)
ChainRuns ==
    Cardinality({k \in 1..Len(writes) : writes[k].label = "NEXT_IN_COMMUNICATION_CHAIN"})

\* the persons a micro-action has a CONCERNS or REFERENCES edge to
ReferencedPersons(m) ==
    {x \in graph.nodes :
        /\ x.label = "Person"
        /\ \E e \in graph.edges :
              e.src = m /\ e.dst = x /\ e.type \in {"CONCERNS", "REFERENCES"}}

SameActorAndRecipient(a, b) ==
    /\ graph.props[a].actor_id # NoId
    /\ graph.props[a].actor_id = graph.props[b].actor_id
    /\ graph.props[a].recipient_id # NoId
    /\ graph.props[a].recipient_id = graph.props[b].recipient_id

\* older and newer are consecutive in the sequence of the messages of
\* their actor and recipient that reference the person P
ChainExpected(older, newer) ==
    /\ SameActorAndRecipient(older, newer)
    /\ graph.props[older].date_start # None
    /\ graph.props[newer].date_start # None
    /\ StartDay(older) < StartDay(newer)
    /\ StartDay(newer) - StartDay(older) <= chain_max_days
    /\ \E P \in ReferencedPersons(older) \cap ReferencedPersons(newer) :
          ~\E other \in MicroActions(graph) :
              /\ SameActorAndRecipient(other, newer)
              /\ P \in ReferencedPersons(other)
              /\ graph.props[other].date_start # None
              /\ StartDay(older) < StartDay(other)
              /\ StartDay(other) < StartDay(newer)

\* C11: once the chain rule has run there is an edge older -> newer exactly
\* between the micro-actions with the same actor and recipient that both
\* reference a person P, at most chain_max_days apart, with no other message
\* of that actor and recipient referencing P dated strictly between them.
C11_ChainLinksConsecutive ==
    (pc = "inference" /\ ChainRuns > 0) =>
        \A older \in MicroActions(graph) : \A newer \in MicroActions(graph) :
            (\E e \in graph.edges : /\ e.type = "NEXT_IN_COMMUNICATION_CHAIN"
                                    /\ e.src = older
                                    /\ e.dst = newer)
                <=> ChainExpected(older, newer)

(***************************************************************************)
(* Properties of the context rule                                          *)
(***************************************************************************)
ContextRuns ==
    Cardinality({k \in 1..Len(writes) : writes[k].label = "ACTED_IN_CONTEXT_OF"})

\* the day the stored end denotes, the start standing in for a missing end
EndDay(x) ==
    IF graph.props[x].date_end # None
    THEN CypherDate(graph.props[x].date_end)
    ELSE CypherDate(graph.props[x].date_start)

\* some day lies in both closed intervals
Overlap(x, y) ==
    /\ StartDay(x) <= EndDay(y)
    /\ StartDay(y) <= EndDay(x)

ContextExpected(m, e) ==
    /\ \E P \in ReferencedPersons(m) : graph.props[e].victim_id = P.key
    /\ graph.props[m].date_start # None
    /\ graph.props[e].date_start # None
    /\ Overlap(m, e)

ContextEdges == {x \in graph.edges : x.type = "ACTED_IN_CONTEXT_OF"}

TimelineRuns ==
    Cardinality({k \in 1..Len(writes) : writes[k].label = "FOLLOWS_IN_CASE"})

SameVictim(a, b) ==
    /\ graph.props[a].victim_id # NoId
    /\ graph.props[a].victim_id = graph.props[b].victim_id

TimelineExpected(a, b) ==
    /\ SameVictim(a, b)
    /\ graph.props[a].date_start # None
    /\ graph.props[b].date_start # None
    /\ StartDay(a) < StartDay(b)
    /\ ~\E c \in Events(graph) :
          /\ SameVictim(a, c)
          /\ graph.props[c].date_start # None
          /\ StartDay(a) < StartDay(c)
          /\ StartDay(c) < StartDay(b)

\* C13: once the case-timeline rule has run there is an edge e1 -> e2
\* exactly when the two events have the same non-null victim, e1 starts
\* strictly before e2, and no event of that victim starts strictly between
\* them.
C13_TimelineLinksSuccessors ==
    (pc = "inference" /\ TimelineRuns > 0) =>
        \A a \in Events(graph) : \A b \in Events(graph) :
            (\E x \in graph.edges : /\ x.type = "FOLLOWS_IN_CASE"
                                    /\ x.src = a
                                    /\ x.dst = b)
                <=> TimelineExpected(a, b)

FollowsInCase == {x \in graph.edges : x.type = "FOLLOWS_IN_CASE"}

\* C30: once the case-timeline rule has run the FOLLOWS_IN_CASE edges of a
\* victim form a single chain: every event has at most one outgoing and at
\* most one incoming FOLLOWS_IN_CASE edge, whatever events are committed,
\* events of one victim that share a start date included.
C30_TimelineIsAChain ==
    (pc = "inference" /\ TimelineRuns > 0) =>
        \A e \in Events(graph) :
            /\ Cardinality({x \in FollowsInCase : x.src = e}) <= 1
            /\ Cardinality({x \in FollowsInCase : x.dst = e}) <= 1

(***************************************************************************)
(* Properties common to the four rules                                     *)
(***************************************************************************)
DerivedTypes ==
    {"REPLIES_TO", "NEXT_IN_COMMUNICATION_CHAIN", "ACTED_IN_CONTEXT_OF", "FOLLOWS_IN_CASE"}

\* the rule whose run is the step's write has run before
RanBefore ==
    \E k \in 1..Len(writes) : writes[k].label = writes'[Len(writes')].label

\* C14: a run of an inference rule deletes no node and no edge, leaves every
\* node, every node property and every edge of the import as it is, adds
\* only edges of the derived types, and adds no edge at all when that rule
\* has already run.
C14_RulesAdditiveIdempotent ==
    [][(pc = "inference" /\ Len(writes') = Len(writes) + 1) =>
          /\ graph'.nodes = graph.nodes
          /\ graph'.props = graph.props
          /\ graph.edges \subseteq graph'.edges
          /\ \A e \in graph'.edges \ graph.edges : e.type \in DerivedTypes
          /\ RanBefore => graph'.edges = graph.edges]_vars

\* the reply rule has run twice on a graph where a linked reply had two
\* candidates of the same latest date, and edges of two more rules exist
C14_Witness ==
    /\ pc = "inference"
    /\ RepliesRuns >= 2
    /\ \E e \in graph.edges :
          /\ e.type = "REPLIES_TO"
          /\ \E o \in EarlierSwapped(e.src) :
                /\ o # e.dst
                /\ StartDay(o) = StartDay(e.dst)
    /\ \E k \in 1..Len(writes) : writes[k].label \in DerivedTypes \ {"REPLIES_TO"}
    /\ \E e \in graph.edges : e.type \in DerivedTypes \ {"REPLIES_TO"}

(***************************************************************************)
(* Properties of the document ids                                          *)
(***************************************************************************)
\* the files before position k of the vault that are archive documents of
\* the same file name as the one at k
EarlierSameName(k) ==
    {i \in 1..(k - 1) : /\ vault[i].kind \in {"archive", "bad_date"}
                        /\ vault[i].path.name = vault[k].path.name}

Hash(name) == "/id/document/" \o sha1(name)

NumberedId(name, n) == IF n = 0 THEN Hash(name) ELSE Hash(name) \o "::" \o ToString(n)

\* the position in the vault of the file a document was parsed from
PositionOf(d) == CHOOSE k \in 1..Len(vault) : PathStr(vault[k].path) = d.file_path

CollisionsOf(k) ==
    {c \in 1..Len(warnings.document_id_collisions) :
        warnings.document_id_collisions[c][3] = PathStr(vault[k].path)}

\* C15: within one run the first archive document of a file name has the
\* id hash(filename) and the k-th has that id with the suffix k-1; one
\* collision is logged for each archive document after the first and none
\* for the first; the ids of the documents returned are pairwise distinct.
C15_IdsNumberedInParseOrder ==
    npc = "returned" =>
        /\ \A n \in 1..Len(doc_list) :
              doc_list[n].id = NumberedId(vault[PositionOf(doc_list[n])].path.name,
                                          Cardinality(EarlierSameName(PositionOf(doc_list[n]))))
        /\ \A k \in 1..Len(vault) :
              Cardinality(CollisionsOf(k)) =
                  IF vault[k].kind \in {"archive", "bad_date"} /\ EarlierSameName(k) # {}
                  THEN 1 ELSE 0
        /\ \A n \in 1..Len(doc_list) : \A m \in 1..Len(doc_list) :
              n # m => doc_list[n].id # doc_list[m].id

\* three archive documents of one file name were parsed and returned
C15_Witness ==
    /\ npc = "returned"
    /\ Len(doc_list) = 3
    /\ \A n \in 1..3 : vault[PositionOf(doc_list[n])].path.name = "letter.md"
    /\ Len(warnings.document_id_collisions) = 2

\* the document id each file of a parse was given
IdsByFile(st) ==
    {<<st.documents[n].file_path, st.documents[n].id>> : n \in 1..Len(st.documents)}

CollisionsLogged(st) ==
    {st.warnings.document_id_collisions[c] :
        c \in 1..Len(st.warnings.document_id_collisions)}

\* the orders in which the files of the vault may be parsed
Orders ==
    {o \in [1..Len(vault) -> 1..Len(vault)] :
        \A i \in 1..Len(vault) : \A j \in 1..Len(vault) : i # j => o[i] # o[j]}

Reordered(o) == [i \in 1..Len(vault) |-> vault[o[i]]]

\* C16: for the files of the vault, every parse order gives each file the
\* document id this run gave it and logs the collisions this run logged.
C16_IdsIndependentOfOrder ==
    npc = "returned" =>
        \A o \in Orders :
            /\ IdsByFile(parse_all(Reordered(o))) =
                   IdsByFile(ParserState(doc_id_index, doc_list, warnings))
            /\ CollisionsLogged(parse_all(Reordered(o))) =
                   CollisionsLogged(ParserState(doc_id_index, doc_list, warnings))

(***************************************************************************)
(* Properties of parse_all under a failing note                            *)
(***************************************************************************)
Failing(k) == vault[k].kind \in {"unreadable", "bad_date"}

\* the vault without its k-th file
Without(k) == SubSeq(vault, 1, k - 1) \o SubSeq(vault, k + 1, Len(vault))

ErrorsOf(k) ==
    {e \in 1..Len(warnings.parse_errors) :
        warnings.parse_errors[e][1] = PathStr(vault[k].path)}

\* C20: parse_all returns whatever notes fail; each failing note has one
\* (file, error) entry and every other note has none; and the documents
\* returned are those parse_all returns for the vault without the failing
\* note, ids included.
C20_FailingNoteIsIsolated ==
    npc = "returned" =>
        \A k \in 1..Len(vault) :
            /\ Cardinality(ErrorsOf(k)) = IF Failing(k) THEN 1 ELSE 0
            /\ Failing(k) => parse_all(Without(k)).documents = doc_list

(***************************************************************************)
(* Properties of the link cleaner                                          *)
(***************************************************************************)
\* /id/<type>/<36-character id> and nothing else
StrictId(s) ==
    \E t \in IdTypes :
        /\ Len(s) = 5 + Len(t) + IdLen
        /\ SubSeq(s, 1, 5 + Len(t)) = <<"/", "i", "d", "/">> \o t \o <<"/">>
        /\ \A i \in (6 + Len(t))..Len(s) : s[i] \in HexChars

\* the raw link without its brackets and alias, a leading slash added when
\* it has none
Stripped(raw) ==
    LET inner == Split(LStrip(RStrip(raw, {"[", "]"}), {"[", "]"}), "|")[1]
    IN  IF StartsWith(inner, <<"/">>) THEN inner ELSE <<"/">> \o inner

\* C18: an id returned by clean_id matches the strict grammar, as does every
\* member of the set extract_all_wikilinks returns; a raw link that does
\* not match it once stripped and slash-corrected makes clean_id raise, with
\* the invalid link logged.
C18_CleanedIdsAreStrict ==
    /\ npc = "cleaned" =>
          /\ record # ValueError => StrictId(record)
          /\ ~StrictId(Stripped(note)) =>
                /\ record = ValueError
                /\ Len(warnings.invalid_wikilinks) = 1
    /\ npc = "extracted" => \A id \in record : StrictId(id)

\* the reference as written, without brackets and alias, lacks the leading slash
WrittenWithoutSlash(raw) ==
    ~StartsWith(Split(LStrip(RStrip(raw, {"[", "]"}), {"[", "]"}), "|")[1], <<"/">>)

\* C24: a slash correction is logged for a reference exactly when the
\* reference as written lacks the leading slash, both when clean_id is
\* called on it and when extract_all_wikilinks finds it in a text; a
\* reference written with its leading slash logs none.
C24_SlashCorrectionIffNoSlash ==
    /\ npc = "cleaned" =>
          (warnings.auto_corrected_slashes # <<>> <=> WrittenWithoutSlash(note))
    /\ (npc = "extracted" /\ record # {}) =>
          (warnings.auto_corrected_slashes # <<>> <=> WrittenWithoutSlash(note))

(***************************************************************************)
(* Properties of the entity records                                        *)
(***************************************************************************)
IsEntityRecord == npc = "parsed" /\ record.outcome = "entity"

SpecificRelationTargets ==
    record.specific_relations.LOCATED_IN \cup record.specific_relations.IS_PART_OF
        \cup record.specific_relations.WORKED_FOR

\* the body holds a link to the id
MentionedInBody(id) ==
    \E i \in 1..Len(note.body) :
        \/ StartsWith(Drop(note.body, i - 1), <<"[", "[">> \o id)
        \/ StartsWith(Drop(note.body, i - 1), <<"[", "[">> \o Tail(id))

\* C17: in an entity record no id is both a target of a specific relation
\* and a generic reference, the entity's own id is not a generic reference,
\* and an id given in the gpe field and linked again in the body is the
\* LOCATED_IN target and not a generic reference.
C17_GenericDisjointFromSpecific ==
    IsEntityRecord =>
        /\ record.generic_references \cap SpecificRelationTargets = {}
        /\ record.id \notin record.generic_references
        /\ \A id \in {GpeId} :
              (note.gpe # None /\ StrictId(Stripped(note.gpe)) /\ Stripped(note.gpe) = id
                  /\ MentionedInBody(id))
                  => /\ record.specific_relations.LOCATED_IN = {id}
                     /\ id \notin record.generic_references

\* a record whose gpe is linked again in the body, whose body also links
\* the entity itself and another person, the latter a generic reference
C17_Witness ==
    /\ IsEntityRecord
    /\ note.gpe # None
    /\ record.specific_relations.LOCATED_IN = {GpeId}
    /\ MentionedInBody(GpeId)
    /\ MentionedInBody(record.id)
    /\ OtherId \in record.generic_references
    /\ record.specific_relations.WORKED_FOR # {}

(***************************************************************************)
(* Properties of the provenance assertions                                 *)
(***************************************************************************)
\* the Assertion nodes that claim x and are supported by a document
AssertionsOf(x) ==
    {a \in graph.nodes :
        /\ a.label = "Assertion"
        /\ Edge("CLAIMS", a, x) \in graph.edges
        /\ \E d \in graph.nodes :
              /\ d.label = "ArchiveDocument"
              /\ Edge("SUPPORTS", d, a) \in graph.edges}

\* C19: once the event and micro-action batches are committed, every Event
\* node and every MicroAction node has exactly one Assertion node, which a
\* document SUPPORTS and which CLAIMS the node.
C19_OneAssertionPerRecord ==
    (BatchesCommitted /\ RanClean) =>
        \A x \in graph.nodes :
            x.label \in {"Event", "MicroAction"} => Cardinality(AssertionsOf(x)) = 1

(***************************************************************************)
(* Properties of the two passes of the entity phase                        *)
(***************************************************************************)
\* the edge types that join an entity or a structure to another entity
CrossEntityEdges ==
    SpecificRelTypes \cup {"REFERENCES", "AT_ORGANIZATION", "AT_PLACE", "RELATES_TO",
                           "IN_CONTEXT_OF"}

\* C21: an iteration of pass 1 of the entity phase that is not the last, so
\* that the node of some entity of the batch is still to be created, adds no
\* cross-entity edge (specific relation, REFERENCES, structure-to-target
\* edge) to the graph.
C21_EdgesDeferredToPass2 ==
    [][(pc = "entities_pass1" /\ idx < Len(entities_sorted)) =>
          \A e \in graph'.edges \ graph.edges : e.type \notin CrossEntityEdges]_vars

(***************************************************************************)
(* Properties of the participant ids                                       *)
(***************************************************************************)
\* C22: the participant id an event or micro-action block stores for a
\* field is absent, the sentinel UNKNOWN_AUTHORITY or an id of the strict
\* grammar; and a field that holds the sentinel keeps it, no invalid
\* reference being logged.
C22_ParticipantIdsResolved ==
    npc \in {"event_field", "micro_field"} =>
        /\ record = None \/ record = Sentinel \/ StrictId(record)
        /\ note = Sentinel =>
              /\ record = Sentinel
              /\ warnings.invalid_wikilinks = <<>>

(***************************************************************************)
(* Properties of the docId of block assertions                             *)
(***************************************************************************)
\* C23: for every file of the vault that DocumentParser returned a document
\* for, the doc_id the event and micro-action parsers give to the assertions
\* of the blocks of that file equals the id of that document, files whose
\* name collides with the name of another file included.
C23_BlockDocIdIsDocumentId ==
    npc = "returned" =>
        \A n \in 1..Len(doc_list) :
            build_document_id_from_path(vault[PositionOf(doc_list[n])].path) = doc_list[n].id

(***************************************************************************)
(* Properties of the scan of a mapping                                     *)
(***************************************************************************)
RECURSIVE LeavesUnder(_, _)
\* the ids of the string leaves of val no key of whose path is blacklisted,
\* clear telling that no key on the way to val is
LeavesUnder(val, clear) ==
    CASE val.kind = "str" ->
            IF clear THEN extract_all_wikilinks(val.text, NoLinkWarnings).ids ELSE {}
      [] val.kind = "dict" ->
            UNION {LeavesUnder(val.items[i].val,
                               clear /\ val.items[i].key \notin FRONTMATTER_BLACKLIST) :
                      i \in 1..Len(val.items)}
      [] val.kind = "list" ->
            UNION {LeavesUnder(val.items[i], clear) : i \in 1..Len(val.items)}
      [] OTHER -> {}

\* C25: extract_from_dict returns exactly the union of extract_all_wikilinks
\* over the string leaves whose path of keys holds no blacklisted key: a
\* leaf under a blacklisted key is skipped at any depth, a leaf under keys
\* none of which is blacklisted is never skipped.
C25_MappingScanSkipsBlacklistedOnly ==
    npc = "scanned" => record = LeavesUnder(note, TRUE)

\* the id of the note is one
HasValidId == note.id # None /\ clean_id(note.id, NoLinkWarnings, 0).value # ValueError

\* C26: a malformed value in one specific-relation field of an entity note
\* (gpe, an element of is_part_of, the organization of an occupation),
\* whatever its type or content, removes that relation only: the note
\* yields an entity record, no error being raised to parse_all, and the
\* record carries the relations of its well-formed fields.
C26_MalformedFieldDropsOneRelation ==
    (npc = "parsed" /\ HasValidId) =>
        /\ record.outcome = "entity"
        /\ note.gpe = Linked(GpeId) => GpeId \in record.specific_relations.LOCATED_IN
        /\ note.is_part_of = <<Linked(OrgId)>> => OrgId \in record.specific_relations.IS_PART_OF
        /\ note.occupations = <<Linked(OrgId)>> => OrgId \in record.specific_relations.WORKED_FOR

\* the rids of the items of a list that have one
RidsOf(items) == {items[i].rid : i \in 1..Len(items)} \ {None}

\* C27: in an entity record the list of a kind of structure holds each item
\* of the front-matter field and of the markdown section exactly once: no
\* item with a rid is lost and no rid appears twice within the kind, the
\* same rid being present in both sources included.
C27_StructureItemsOncePerRid ==
    IsEntityRecord =>
        /\ RidsOf(note.names) \cup RidsOf(note.md_names) \subseteq RidsOf(record.structures.names)
        /\ \A i \in 1..Len(record.structures.names) :
           \A j \in 1..Len(record.structures.names) :
              (i # j /\ record.structures.names[i].rid # None) =>
                  record.structures.names[i].rid # record.structures.names[j].rid

(***************************************************************************)
(* Properties of the narrative text                                        *)
(***************************************************************************)
\* the part of the body before its last divider, the body when it has none
BeforeLastDivider(body) ==
    IF Len(SplitOn(body, Divider)) > 1
    THEN JoinWith(SubSeq(SplitOn(body, Divider), 1, Len(SplitOn(body, Divider)) - 1), Divider)
    ELSE body

\* C28: the narrative text of a document is derived from the part of its
\* body before the last line that is exactly ---: with n >= 1 dividers all
\* that precedes the n-th is kept and only the block after the last divider
\* is removed.
C28_NarrativeBeforeLastDivider ==
    npc = "narrated" => record = narrative_of(BeforeLastDivider(note), note)

\* C29: EDTFParser.parse is total on strings: for every expression it
\* returns a triple and never raises, the tokens YYYY-MM and YYYY-MM-DD
\* whose month or day is not a calendar value included.
C29_ParseNeverRaises ==
    (DateParsed /\ edtf_string # None) => parsed.date_precision # "raised"

====
